---- MODULE Spec2Model ----
(***************************************************************************)
(* Model of the weather dashboard's refresh pipeline: the zustand store    *)
(* (src/src/store/dashboardStore.js), the useOpenMeteo hook                *)
(* (src/unnamed/part_000, lines 1-205), the usePolygons hook               *)
(* (src/unnamed/part_001) and the api helpers (src/unnamed/part_002).      *)
(*                                                                         *)
(* Units: instants are epoch milliseconds; raw provider samples are in     *)
(* hundredths of the metric's unit; aggregated values and rule thresholds  *)
(* are in tenths; coordinates are in 1e-5 degree and rounded coordinates   *)
(* (toFixed(4)) in 1e-4 degree.                                            *)
(***************************************************************************)
EXTENDS Integers, Sequences, FiniteSets, TLC

VARIABLES
  now,              \* Date.now()
  currentTime,      \* store.currentTime
  timeRange,        \* store.timeRange
  isRangeMode,      \* store.isRangeMode
  polygons,         \* store.polygons
  dataSources,      \* store.dataSources
  weatherDataCache, \* store.weatherDataCache (a Map: key -> {data, timestamp})
  calls,            \* the refreshAllPolygonData / refreshSinglePolygon invocations so far
  winGen,           \* history: number of TimeWindow changes so far
  written,          \* history: per polygon id, which call wrote its data and how
  lastOp,           \* history: the last WeatherCache operation and what it returned
  aggIn,            \* input of the aggregation under test (provider payload, metric)
  aggOut,           \* its result
  colorIn,          \* arguments of the getColorForValue call under test
  colorOut,         \* its result
  isPlaying,        \* store.isPlaying
  fractionalHours,  \* the installed date-fns keeps the fraction of an hour amount
  lastCmd,          \* history: the last timeline command, its arguments and result
  cmds,             \* history: number of timeline commands so far
  timers,           \* the pending setTimeout callbacks of usePolygons' debounce effect
  debounceTimer,    \* the timer id the effect's cleanup will clear
  timerCount,       \* number of timers set so far (the next timer id minus one)
  lastChange,       \* history: when the user last changed the TimeWindow or the regions
  startsSinceChange,\* history: refreshAll calls the timer has started since then
  statsOut,         \* the result of the last getPolygonStats call
  validation,       \* the last validateColorRule call: its rule and its errors
  lastEdit,         \* history: the last rule-list edit and the number of edits so far
  retry,            \* the retryWithBackoff call: its position, its arguments, its history
  batch             \* the batchFetchWeatherData call: its position, its arguments, its history

\* the variables of the color rule engine and of the timeline controls
extraVars == <<colorIn, colorOut, isPlaying, fractionalHours, lastCmd, cmds>>

\* the variables of the debounce effect, of the statistics, of the rule
\* validation and edits, and of the API utilities
hookVars == <<timers, debounceTimer, timerCount, lastChange, startsSinceChange,
              statsOut, validation, lastEdit, retry, batch>>

vars == <<now, currentTime, timeRange, isRangeMode, polygons, dataSources,
          weatherDataCache, calls, winGen, written, lastOp, aggIn, aggOut,
          extraVars, hookVars>>

----------------------------------------------------------------------------
(* Bounds of the model *)

MaxCalls == 2
MaxRequests == 3
MaxWindowChanges == 1
MaxClockHours == 1
MaxClockSlack == 1
RandGrain == 1

(* Program constants *)

CacheTtlMs == 3600000
MsPerHour == 3600000
DefaultMaxRetries == 3

\* Math.round(a / b) for b > 0: the nearest integer, ties towards +infinity
MathRound(a, b) == (2 * a + b) \div (2 * b)

Abs(x) == IF x < 0 THEN -x ELSE x

\* Number.prototype.toFixed(4) of (num / den) given in 1e-5 degree: the
\* nearest multiple of 1e-4, ties away from zero
toFixed4(num, den) ==
  LET a == Abs(num)
      m == (2 * a + 10 * den) \div (20 * den)
  IN IF num < 0 THEN -m ELSE m

\* value | null of the store's number-or-null fields
Null == [isNull |-> TRUE, v |-> 0]
Num(x) == [isNull |-> FALSE, v |-> x]

NoError == "null"

\* one sample value of a provider array
V(n) == [k |-> "num", n |-> n]
VNull == [k |-> "null", n |-> 0]
VNaN == [k |-> "nan", n |-> 0]

\* a provider payload (response.data): hasData is its truthiness, hasHourly /
\* hasTime say whether data.hourly / data.hourly.time exist, field names the
\* one value array data.hourly carries ("" when it carries none); time holds
\* the ISO hour stamps as hours since the epoch
Payload(hasData, hasHourly, hasTime, time, field, values) ==
  [hasData |-> hasData, hasHourly |-> hasHourly, hasTime |-> hasTime,
   time |-> time, field |-> field, values |-> values]

\* a null / undefined payload
NoPayload == Payload(FALSE, FALSE, FALSE, <<>>, "", <<>>)

----------------------------------------------------------------------------
(* The store: src/src/store/dashboardStore.js *)

DefaultColor == "#666666"

Rule1(op, val, color) ==
  [operator |-> op, value |-> val, operator2 |-> "", hasValue2 |-> FALSE,
   value2 |-> 0, color |-> color]

Rule2(op, val, op2, val2, color) ==
  [operator |-> op, value |-> val, operator2 |-> op2, hasValue2 |-> TRUE,
   value2 |-> val2, color |-> color]

\* faulty variant, for comparison: the third temperature rule starts above
\* 15 instead of at 15, and the second precipitation rule starts at 0
InitialDataSourcesShifted ==
  << [id |-> "temperature", field |-> "temperature_2m",
      colorRules |-> << Rule1("<", 0, "#1890ff"),
                        Rule2(">=", 0, "<", 150, "#52c41a"),
                        Rule2(">", 150, "<", 250, "#faad14"),
                        Rule1(">=", 250, "#f5222d") >>],
     [id |-> "humidity", field |-> "relativehumidity_2m",
      colorRules |-> << Rule1("<", 300, "#f5222d"),
                        Rule2(">=", 300, "<", 600, "#faad14"),
                        Rule2(">=", 600, "<", 800, "#52c41a"),
                        Rule1(">=", 800, "#1890ff") >>],
     [id |-> "precipitation", field |-> "precipitation",
      colorRules |-> << Rule1("=", 0, "#d9d9d9"),
                        Rule2(">=", 0, "<", 10, "#91d5ff"),
                        Rule2(">=", 10, "<", 50, "#40a9ff"),
                        Rule1(">=", 50, "#096dd9") >>] >>

\* the built-in data sources (thresholds in tenths)
InitialDataSources ==
  << [id |-> "temperature", field |-> "temperature_2m",
      colorRules |-> << Rule1("<", 0, "#1890ff"),
                        Rule2(">=", 0, "<", 150, "#52c41a"),
                        Rule2(">=", 150, "<", 250, "#faad14"),
                        Rule1(">=", 250, "#f5222d") >>],
     [id |-> "humidity", field |-> "relativehumidity_2m",
      colorRules |-> << Rule1("<", 300, "#f5222d"),
                        Rule2(">=", 300, "<", 600, "#faad14"),
                        Rule2(">=", 600, "<", 800, "#52c41a"),
                        Rule1(">=", 800, "#1890ff") >>],
     [id |-> "precipitation", field |-> "precipitation",
      colorRules |-> << Rule1("=", 0, "#d9d9d9"),
                        Rule2(">", 0, "<", 10, "#91d5ff"),
                        Rule2(">=", 10, "<", 50, "#40a9ff"),
                        Rule1(">=", 50, "#096dd9") >>] >>

HasDataSource(id) == \E i \in 1..Len(dataSources) : dataSources[i].id = id

\* Array.prototype.find: the first element with the id
getDataSourceById(id) ==
  dataSources[CHOOSE i \in 1..Len(dataSources) :
                 /\ dataSources[i].id = id
                 /\ \A j \in 1..(i - 1) : dataSources[j].id # id]

Compare(op, x, y) ==
  CASE op \in {"=", "=="} -> x = y
    [] op = "<"  -> x < y
    [] op = "<=" -> x <= y
    [] op = ">"  -> x > y
    [] op = ">=" -> x >= y
    [] OTHER -> FALSE

matchesRule(value, rule) ==
  LET matches == Compare(rule.operator, value, rule.value)
  IN IF matches /\ rule.operator2 # "" /\ rule.hasValue2
     THEN CASE rule.operator2 \in {"<", "<=", ">", ">="} ->
                 Compare(rule.operator2, value, rule.value2)
            [] OTHER -> matches
     ELSE matches

\* faulty variant, for comparison: the last matching rule gives the color
getColorForValueLastMatch(sourceId, value) ==
  IF ~HasDataSource(sourceId) \/ value.isNull
  THEN DefaultColor
  ELSE LET rules == getDataSourceById(sourceId).colorRules
           hits == {i \in 1..Len(rules) : matchesRule(value.v, rules[i])}
       IN IF hits = {} THEN DefaultColor
          ELSE rules[CHOOSE i \in hits : \A j \in hits : i >= j].color

\* value is a number-or-null record
getColorForValue(sourceId, value) ==
  IF ~HasDataSource(sourceId) \/ value.isNull
  THEN DefaultColor
  ELSE LET rules == getDataSourceById(sourceId).colorRules
           hits == {i \in 1..Len(rules) : matchesRule(value.v, rules[i])}
       IN IF hits = {} THEN DefaultColor
          ELSE rules[CHOOSE i \in hits : \A j \in hits : i <= j].color

getTimeWindow ==
  IF isRangeMode
  THEN timeRange
  ELSE [start |-> currentTime, end |-> currentTime + MsPerHour]

\* faulty variant, for comparison: an entry already stored under the key is
\* kept (first write wins)
cacheWeatherDataKeepsFirst(cache, key, data) ==
  [k \in (DOMAIN cache) \cup {key} |->
     IF k \in DOMAIN cache THEN cache[k] ELSE [data |-> data, timestamp |-> now]]

\* cacheWeatherData(key, data): Map.set under the current Date.now()
cacheWeatherData(cache, key, data) ==
  [k \in (DOMAIN cache) \cup {key} |->
     IF k = key THEN [data |-> data, timestamp |-> now] ELSE cache[k]]

CacheDelete(cache, key) == [k \in (DOMAIN cache) \ {key} |-> cache[k]]

\* faulty variant, for comparison: an entry aged exactly the TTL already counts as expired
CacheExpiredAtTtl(entry) == now - entry.timestamp >= CacheTtlMs

\* the expiry test of getCachedWeatherData
CacheExpired(entry) == now - entry.timestamp > CacheTtlMs

\* getCachedWeatherData(key): found says a non-null value is returned, data
\* is that value, cache is the Map afterwards
getCachedWeatherData(cache, key) ==
  IF key \notin DOMAIN cache
  THEN [found |-> FALSE, data |-> NoPayload, cache |-> cache]
  ELSE IF CacheExpired(cache[key])
       THEN [found |-> FALSE, data |-> NoPayload, cache |-> CacheDelete(cache, key)]
       ELSE [found |-> TRUE, data |-> cache[key].data, cache |-> cache]

\* faulty variant, for comparison: an update addressed to a polygon that is
\* not in the list adds it
updatePolygonOrAdd(polys, id, data, color, lastUpdated, error) ==
  IF \E i \in 1..Len(polys) : polys[i].id = id
  THEN [i \in 1..Len(polys) |->
          IF polys[i].id = id
          THEN [polys[i] EXCEPT !.data = data, !.color = color,
                                !.lastUpdated = lastUpdated, !.error = error]
          ELSE polys[i]]
  ELSE Append(polys, [id |-> id, coordinates |-> <<>>, dataSource |-> "",
                      data |-> data, color |-> color,
                      lastUpdated |-> lastUpdated, error |-> error])

\* faulty variant, for comparison: the updates replace the polygon instead of
\* being merged into it
updatePolygonReplacing(polys, id, data, color, lastUpdated, error) ==
  [i \in 1..Len(polys) |->
     IF polys[i].id = id
     THEN [id |-> "", coordinates |-> <<>>, dataSource |-> "", data |-> data,
           color |-> color, lastUpdated |-> lastUpdated, error |-> error]
     ELSE polys[i]]

\* updatePolygon(id, updates) for the four fields a refresh writes
updatePolygon(polys, id, data, color, lastUpdated, error) ==
  [i \in 1..Len(polys) |->
     IF polys[i].id = id
     THEN [polys[i] EXCEPT !.data = data, !.color = color,
                           !.lastUpdated = lastUpdated, !.error = error]
     ELSE polys[i]]

\* updatePolygon(id, { data })
updatePolygonData(polys, id, data) ==
  [i \in 1..Len(polys) |->
     IF polys[i].id = id THEN [polys[i] EXCEPT !.data = data] ELSE polys[i]]

\* updatePolygon(id, { dataSource })
updatePolygonDataSource(polys, id, dataSourceId) ==
  [i \in 1..Len(polys) |->
     IF polys[i].id = id THEN [polys[i] EXCEPT !.dataSource = dataSourceId]
     ELSE polys[i]]

\* deletePolygon(id): polygons.filter(p => p.id !== id)
RECURSIVE deletePolygon(_, _)
deletePolygon(polys, id) ==
  IF polys = <<>> THEN <<>>
  ELSE IF Head(polys).id = id THEN deletePolygon(Tail(polys), id)
       ELSE <<Head(polys)>> \o deletePolygon(Tail(polys), id)

----------------------------------------------------------------------------
(* The useOpenMeteo hook: src/unnamed/part_000, lines 1-205 *)

\* new Date(isoHourStamp): the stamp's instant in epoch milliseconds
ParseTimestamp(h) == h * MsPerHour

\* faulty variant, for comparison: every metric gets the range of an
\* unrecognised one
MockRangeDefaultOnly(dataSourceId) == [min |-> 0, max |-> 100]

MockRange(dataSourceId) ==
  CASE dataSourceId = "temperature"   -> [min |-> -10, max |-> 35]
    [] dataSourceId = "humidity"      -> [min |-> 30, max |-> 90]
    [] dataSourceId = "precipitation" -> [min |-> 0, max |-> 20]
    [] OTHER                          -> [min |-> 0, max |-> 100]

\* generateMockData with Math.random() = rnd / grain, in tenths:
\* Math.round((random * (max - min) + min) * 10)
generateMockDataOf(dataSourceId, rnd, grain) ==
  LET range == MockRange(dataSourceId)
  IN MathRound(10 * (rnd * (range.max - range.min) + range.min * grain), grain)

generateMockData(dataSourceId, rnd) ==
  generateMockDataOf(dataSourceId, rnd, RandGrain)

\* apiData.hourly[dataSource.field]: present only under the source's field
HasValues(apiData, dataSourceId) ==
  apiData.field = getDataSourceById(dataSourceId).field

\* faulty variant, for comparison: the window's end is exclusive
RelevantIndexesEndExclusive(apiData, timeWindow) ==
  {i \in 1..Len(apiData.time) :
     /\ ParseTimestamp(apiData.time[i]) >= timeWindow.start
     /\ ParseTimestamp(apiData.time[i]) < timeWindow.end
     /\ i <= Len(apiData.values)
     /\ apiData.values[i].k = "num"}

\* the loop of calculateCurrentValue: the indexes whose sample is kept
RelevantIndexes(apiData, timeWindow) ==
  {i \in 1..Len(apiData.time) :
     /\ ParseTimestamp(apiData.time[i]) >= timeWindow.start
     /\ ParseTimestamp(apiData.time[i]) <= timeWindow.end
     /\ i <= Len(apiData.values)
     /\ apiData.values[i].k = "num"}

RECURSIVE SumOver(_, _)
SumOver(f, S) ==
  IF S = {} THEN 0
  ELSE LET i == CHOOSE x \in S : TRUE IN f[i].n + SumOver(f, S \ {i})

\* calculateCurrentValue(apiData, dataSourceId): mock says the generateMockData
\* exit was taken, otherwise v is Math.round(average * 10) (tenths), where the
\* samples are in hundredths; window is what getTimeWindow() returned
calculateCurrentValue(apiData, dataSourceId) ==
  LET timeWindow == getTimeWindow
      synthetic == [mock |-> TRUE, v |-> 0, window |-> timeWindow]
  IN IF ~HasDataSource(dataSourceId) \/ ~apiData.hasHourly \/ ~apiData.hasTime
     THEN synthetic
     ELSE IF \/ ~HasValues(apiData, dataSourceId)
             \/ Len(apiData.time) = 0
             \/ Len(apiData.values) = 0
          THEN synthetic
          ELSE LET relevant == RelevantIndexes(apiData, timeWindow)
               IN IF relevant = {}
                  THEN synthetic
                  ELSE [mock |-> FALSE,
                        v |-> MathRound(SumOver(apiData.values, relevant),
                                        10 * Cardinality(relevant)),
                        window |-> timeWindow]

\* the cache key of fetchWeatherData for a polygon: the centroid of
\* fetchMultiplePolygons (mean of the vertices) through toFixed(4), and the
\* data source id
RECURSIVE SumCoord(_, _)
SumCoord(coordinates, c) ==
  IF coordinates = <<>> THEN 0
  ELSE Head(coordinates)[c] + SumCoord(Tail(coordinates), c)

cacheKey(polygon) ==
  << toFixed4(SumCoord(polygon.coordinates, 1), Len(polygon.coordinates)),
     toFixed4(SumCoord(polygon.coordinates, 2), Len(polygon.coordinates)),
     polygon.dataSource >>

\* L.latLngBounds(coordinates): the south-west and the north-east corner
RECURSIVE MinCoord(_, _)
MinCoord(coordinates, c) ==
  IF Len(coordinates) = 1 THEN coordinates[1][c]
  ELSE LET m == MinCoord(Tail(coordinates), c)
       IN IF Head(coordinates)[c] < m THEN Head(coordinates)[c] ELSE m

RECURSIVE MaxCoord(_, _)
MaxCoord(coordinates, c) ==
  IF Len(coordinates) = 1 THEN coordinates[1][c]
  ELSE LET m == MaxCoord(Tail(coordinates), c)
       IN IF Head(coordinates)[c] > m THEN Head(coordinates)[c] ELSE m

latLngBounds(coordinates) ==
  << <<MinCoord(coordinates, 1), MinCoord(coordinates, 2)>>,
     <<MaxCoord(coordinates, 1), MaxCoord(coordinates, 2)>> >>

\* the polygon as refreshData hands it to fetchWeatherData: the point is
\* bounds.getCenter(), the mean of the two corners
AtBoundsCenter(polygon) ==
  [polygon EXCEPT !.coordinates = latLngBounds(polygon.coordinates)]

\* validateApiResponse (src/unnamed/part_002): the list of errors is empty
validateApiResponse(response) ==
  /\ response.hasData
  /\ response.hasHourly
  /\ response.hasTime
  /\ Len(response.time) # 0

NoWindow == [start |-> 0, end |-> -1]

\* one polygon's fetchWeatherData inside fetchMultiplePolygons, before anything
\* has happened; value is meaningful once pc = "done"; url is the `hourly`
\* parameter of the request in flight.  History fields:
\* synthetic (the value came from generateMockData), window (the TimeWindow a
\* real value was aggregated over), outcome, attempts (HTTP requests issued),
\* received (the payload axios.get resolved with)
NewTask(polygon) ==
  [pc |-> "fetching", polygonId |-> polygon.id, dataSource |-> polygon.dataSource,
   key |-> cacheKey(polygon), url |-> "", value |-> 0, error |-> NoError,
   synthetic |-> FALSE, window |-> NoWindow, outcome |-> "pending",
   attempts |-> 0, received |-> NoPayload]

\* fetchWeatherData returns: r is calculateCurrentValue's result, or the catch
\* block's generateMockData (r.mock); fetchMultiplePolygons wraps the value
\* with error: null
Finished(task, r, rnd, outcome) ==
  [task EXCEPT !.pc = "done",
               !.value = IF r.mock THEN generateMockData(task.dataSource, rnd)
                         ELSE r.v,
               !.error = NoError,
               !.synthetic = r.mock,
               !.window = IF r.mock THEN NoWindow ELSE r.window,
               !.outcome = outcome]

CaughtError == [mock |-> TRUE, v |-> 0, window |-> NoWindow]

\* faulty variant, for comparison: the request is issued without looking
\* into the cache
fetchWeatherDataStartNoCache(cache, polygon, rnd) ==
  [cache |-> cache,
   task |-> [NewTask(polygon) EXCEPT
               !.url = getDataSourceById(polygon.dataSource).field,
               !.attempts = 1]]

\* fetchWeatherData up to its first await: cache lookup, and on a miss the
\* request of buildApiUrl (which throws for an unknown data source)
fetchWeatherDataStart(cache, polygon, rnd) ==
  LET task == NewTask(polygon)
      got == getCachedWeatherData(cache, task.key)
  IN IF got.found /\ got.data.hasData
     THEN [cache |-> got.cache,
           task |-> Finished(task,
                             calculateCurrentValue(got.data, polygon.dataSource),
                             rnd, "hit")]
     ELSE IF ~HasDataSource(polygon.dataSource)
          THEN [cache |-> got.cache,
                task |-> Finished(task, CaughtError, rnd, "config")]
          ELSE [cache |-> got.cache,
                task |-> [task EXCEPT
                            !.url = getDataSourceById(polygon.dataSource).field,
                            !.attempts = 1]]

\* fetchWeatherData after `await axios.get(url)` resolved with a payload
fetchWeatherDataResolved(cache, task, payload, rnd) ==
  IF ~payload.hasData \/ ~payload.hasHourly
  THEN [cache |-> cache,
        task |-> [Finished(task, CaughtError, rnd, "invalid")
                    EXCEPT !.received = payload]]
  ELSE [cache |-> cacheWeatherData(cache, task.key, payload),
        task |-> [Finished(task, calculateCurrentValue(payload, task.dataSource),
                           rnd, "fetched")
                    EXCEPT !.received = payload]]

\* fetchWeatherData after `await axios.get(url)` rejected
fetchWeatherDataRejected(cache, task, rnd) ==
  [cache |-> cache, task |-> Finished(task, CaughtError, rnd, "netfail")]

\* polygons.map(async ...) of fetchMultiplePolygons: every polygon's
\* synchronous part, in list order, on the one shared cache
RECURSIVE StartTasks(_, _, _, _)
StartTasks(polys, cache, rnd, acc) ==
  IF polys = <<>>
  THEN [cache |-> cache, tasks |-> acc]
  ELSE LET started == fetchWeatherDataStart(cache, Head(polys), rnd[Len(acc) + 1])
       IN StartTasks(Tail(polys), started.cache, rnd, Append(acc, started.task))

AllDone(tasks) == \A i \in 1..Len(tasks) : tasks[i].pc = "done"

\* history: the HTTP requests a list of tasks has issued
RECURSIVE Requests(_)
Requests(tasks) ==
  IF tasks = <<>> THEN 0 ELSE Head(tasks).attempts + Requests(Tail(tasks))

RECURSIVE RequestsOfCalls(_)
RequestsOfCalls(cs) ==
  IF cs = <<>> THEN 0 ELSE Requests(Head(cs).tasks) + RequestsOfCalls(Tail(cs))

----------------------------------------------------------------------------
(* The usePolygons hook: src/unnamed/part_001 *)

\* faulty variant, for comparison: the first failed fetch ends the loop, as
\* if it had rejected the whole batch
RECURSIVE ApplyResultsUntilFailure(_, _, _)
ApplyResultsUntilFailure(polys, snapshot, tasks) ==
  IF tasks = <<>> \/ Head(tasks).outcome \in {"netfail", "invalid", "config"}
  THEN polys
  ELSE LET t == Head(tasks)
           found == {i \in 1..Len(snapshot) : snapshot[i].id = t.polygonId}
       IN IF found = {}
          THEN ApplyResultsUntilFailure(polys, snapshot, Tail(tasks))
          ELSE LET polygon == snapshot[CHOOSE i \in found : \A j \in found : i <= j]
                   color == getColorForValue(polygon.dataSource, Num(t.value))
               IN ApplyResultsUntilFailure(
                    updatePolygon(polys, t.polygonId, Num(t.value), color,
                                  Num(now), t.error),
                    snapshot, Tail(tasks))

\* results.forEach of refreshAllPolygonData / the single result of
\* refreshSinglePolygon: color from the closure's polygon, then updatePolygon
RECURSIVE ApplyResults(_, _, _)
ApplyResults(polys, snapshot, tasks) ==
  IF tasks = <<>>
  THEN polys
  ELSE LET t == Head(tasks)
           found == {i \in 1..Len(snapshot) : snapshot[i].id = t.polygonId}
       IN IF found = {}
          THEN ApplyResults(polys, snapshot, Tail(tasks))
          ELSE LET polygon == snapshot[CHOOSE i \in found : \A j \in found : i <= j]
                   color == getColorForValue(polygon.dataSource, Num(t.value))
               IN ApplyResults(updatePolygon(polys, t.polygonId, Num(t.value),
                                             color, Num(now), t.error),
                               snapshot, Tail(tasks))

\* what a finished call writes: refreshAllPolygonData and
\* refreshSinglePolygon write value, color, lastUpdated and error of every
\* result; PolygonComponent's refreshData writes updatePolygon(id, { data })
WriteResults(kind, polys, snapshot, tasks) ==
  IF kind = "manual"
  THEN updatePolygonData(polys, tasks[1].polygonId, Num(tasks[1].value))
  ELSE ApplyResults(polys, snapshot, tasks)

\* history: which call's result is on each polygon after ApplyResults
WrittenBy(c, tasks) ==
  [id \in DOMAIN written |->
     LET mine == {i \in 1..Len(tasks) : tasks[i].polygonId = id}
     IN IF mine = {} \/ ~\E j \in 1..Len(polygons) : polygons[j].id = id
        THEN written[id]
        ELSE LET t == tasks[CHOOSE i \in mine : \A j \in mine : i >= j]
             IN [call |-> c, synthetic |-> t.synthetic, window |-> t.window,
                 outcome |-> t.outcome]]

----------------------------------------------------------------------------
(* The state machine of the refresh pipeline *)

Polygon(id, coordinates, dataSource) ==
  [id |-> id, coordinates |-> coordinates, dataSource |-> dataSource,
   data |-> Null, color |-> "", lastUpdated |-> Null, error |-> NoError]

\* three drawn regions; p1 and p2 have different vertices and the same
\* centroid after toFixed(4), and the same data source
InitialPolygons ==
  << Polygon("p1", << <<5250000, 1340000>>, <<5250010, 1340020>>,
                      <<5250020, 1340000>> >>, "temperature"),
     Polygon("p2", << <<5250001, 1340001>>, <<5250011, 1340021>>,
                      <<5250021, 1340001>> >>, "temperature"),
     Polygon("p3", << <<4885000, 235000>>, <<4885030, 235030>>,
                      <<4885060, 235000>> >>, "humidity") >>

PolygonIds == {InitialPolygons[i].id : i \in 1..Len(InitialPolygons)}

\* what the provider may answer to a request for `field`
ProviderPayloads(field) ==
  { Payload(TRUE, TRUE, TRUE, <<0, 1, 2>>, field, <<V(1000), V(2000), V(3000)>>),
    Payload(TRUE, TRUE, TRUE, <<0, 1, 2>>, field, <<V(1234), VNull, V(2555)>>),
    NoPayload,
    Payload(TRUE, FALSE, FALSE, <<>>, "", <<>>),
    Payload(TRUE, TRUE, FALSE, <<>>, field, <<V(1000)>>),
    Payload(TRUE, TRUE, TRUE, <<>>, field, <<>>),
    Payload(TRUE, TRUE, TRUE, <<0, 1, 2>>, "", <<>>) }

\* the instants the user moves the timeline to
TimeChoices == {0, 3 * MsPerHour}

\* history of the WeatherCache operations: the last operation (op, key), what
\* it found (had: an entry was stored under key; age: now - its timestamp),
\* what it returned (found, data), and the operation just before it
NoOp == [op |-> "none", key |-> <<0, 0, "">>, had |-> FALSE, age |-> 0,
         found |-> FALSE, data |-> NoPayload,
         prevOp |-> "none", prevKey |-> <<0, 0, "">>, prevData |-> NoPayload]
NoColorIn == [sourceId |-> "", value |-> Null]
NoColorOut == [state |-> "none", color |-> ""]
NoCmd == [op |-> "none", hours |-> 0, target |-> 0, result |-> TRUE,
          mode |-> FALSE, time |-> 0, range |-> [start |-> 0, end |-> 0],
          playing |-> FALSE]
NoAgg == [payload |-> NoPayload, dataSourceId |-> ""]
NoStats == [state |-> "none", total |-> 0, withData |-> 0, withErrors |-> 0,
            byDataSource |-> <<>>]
\* retryWithBackoff has not been called
NoRetry ==
  [pc |-> "idle", maxRetries |-> 0, baseDelay |-> 0, attempt |-> 0,
   calledAt |-> <<>>, failedAt |-> <<>>, errors |-> <<>>, delays |-> <<>>,
   result |-> "", thrown |-> ""]

\* batchFetchWeatherData has not been called
NoBatch ==
  [pc |-> "idle", locations |-> <<>>, maxConcurrent |-> 0, b |-> 0,
   inFlight |-> {}, settled |-> <<>>, results |-> <<>>, maxInFlight |-> 0]

\* no rule-list edit yet
NoEdit == [n |-> 0, op |-> "", sourceId |-> "", ruleIndex |-> -1, arg |-> <<>>]

NoValidation == [state |-> "none", rule |-> <<>>, errors |-> {}]
NoResult == [state |-> "none", mock |-> FALSE, v |-> 0]

\* the timeline at construction: currentTime: new Date(), timeRange: 24 hours
\* to either side, isRangeMode: false
InitTimeline ==
  /\ currentTime = now
  /\ timeRange = [start |-> now - 24 * MsPerHour, end |-> now + 24 * MsPerHour]
  /\ isRangeMode = FALSE

\* the store at construction, but for its data sources
InitStoreBut ==
  /\ now = 0
  /\ weatherDataCache = <<>>
  /\ calls = <<>>
  /\ winGen = 0
  /\ written = [id \in PolygonIds |->
                  [call |-> 0, synthetic |-> FALSE, window |-> NoWindow,
                   outcome |-> "none"]]

InitStore ==
  /\ InitStoreBut
  /\ dataSources = InitialDataSources

\* usePolygons is not mounted, and nothing was counted or validated yet
InitHooks ==
  /\ timers = {}
  /\ debounceTimer = 0
  /\ timerCount = 0
  /\ lastChange = 0
  /\ startsSinceChange = 0
  /\ statsOut = NoStats
  /\ validation = NoValidation
  /\ lastEdit = NoEdit
  /\ retry = NoRetry
  /\ batch = NoBatch

\* no color evaluation and no timeline command yet; isPlaying: false
InitExtraBut ==
  /\ InitHooks
  /\ isPlaying = FALSE
  /\ fractionalHours = FALSE
  /\ lastCmd = NoCmd
  /\ cmds = 0

InitExtra ==
  /\ InitExtraBut
  /\ colorIn = NoColorIn
  /\ colorOut = NoColorOut

Init ==
  /\ InitStore
  /\ InitTimeline
  /\ InitExtra
  /\ polygons = InitialPolygons
  /\ lastOp = NoOp
  /\ aggIn = NoAgg
  /\ aggOut = NoResult

\* a call of refreshAllPolygonData or refreshSinglePolygon on the closure's
\* polygons (or of PolygonComponent's refreshData on its polygon):
\* fetchMultiplePolygons up to the first await, and the write of the
\* results when nothing had to be awaited
StartCall(kind, snapshot, rnd) ==
  LET started == StartTasks(snapshot, weatherDataCache, rnd, <<>>)
      done == AllDone(started.tasks)
      call == [kind |-> kind, snapshot |-> snapshot, tasks |-> started.tasks,
               pc |-> IF done THEN "done" ELSE "running",
               win0 |-> getTimeWindow, gen0 |-> winGen,
               during |-> {j \in 1..Len(calls) : calls[j].pc = "running"}]
  IN /\ RequestsOfCalls(calls) + Requests(started.tasks) <= MaxRequests
     /\ weatherDataCache' = started.cache
     /\ calls' = Append(calls, call)
     /\ polygons' = IF done
                    THEN WriteResults(kind, polygons, snapshot, started.tasks)
                    ELSE polygons
     /\ written' = IF done
                   THEN WrittenBy(Len(calls) + 1, started.tasks)
                   ELSE written

\* refreshAllPolygonData()
RefreshAll ==
  /\ Len(calls) < MaxCalls
  /\ Len(polygons) # 0
  /\ \E rnd \in [1..Len(polygons) -> 0..(RandGrain - 1)] :
       StartCall("all", polygons, rnd)
  /\ lastOp' = NoOp
  /\ UNCHANGED <<extraVars, hookVars, now, currentTime, timeRange, isRangeMode, dataSources, winGen,
                 aggIn, aggOut>>

\* refreshSinglePolygon(polygonId), Math.random() drawn from draws
RefreshOneDrawing(polygonId, draws) ==
  /\ Len(calls) < MaxCalls
  /\ \E i \in 1..Len(polygons) :
       /\ polygons[i].id = polygonId
       /\ \A j \in 1..(i - 1) : polygons[j].id # polygonId
       /\ \E rnd \in [{1} -> draws] :
            StartCall("one", <<polygons[i]>>, rnd)
  /\ lastOp' = NoOp
  /\ UNCHANGED <<extraVars, hookVars, now, currentTime, timeRange, isRangeMode, dataSources, winGen,
                 aggIn, aggOut>>

\* refreshSinglePolygon(polygonId)
RefreshOne(polygonId) == RefreshOneDrawing(polygonId, 0..(RandGrain - 1))

\* a task's fetchWeatherData has returned: Promise.all and the write of the
\* call's results follow in the same turn once every task of the call is done
CompleteTask(c, i, res) ==
  LET tasks == [calls[c].tasks EXCEPT ![i] = res.task]
      done == AllDone(tasks)
  IN /\ weatherDataCache' = res.cache
     /\ calls' = [calls EXCEPT ![c].tasks = tasks,
                               ![c].pc = IF done THEN "done" ELSE "running"]
     /\ polygons' = IF done
                    THEN WriteResults(calls[c].kind, polygons, calls[c].snapshot,
                                      tasks)
                    ELSE polygons
     /\ written' = IF done THEN WrittenBy(c, tasks) ELSE written

\* axios.get resolves for task i of call c
FetchResolve(c, i) ==
  /\ c \in 1..Len(calls)
  /\ i \in 1..Len(calls[c].tasks)
  /\ calls[c].tasks[i].pc = "fetching"
  /\ \E payload \in ProviderPayloads(calls[c].tasks[i].url) :
       \E rnd \in 0..(RandGrain - 1) :
         CompleteTask(c, i, fetchWeatherDataResolved(weatherDataCache,
                                                     calls[c].tasks[i], payload, rnd))
  /\ lastOp' = NoOp
  /\ UNCHANGED <<extraVars, hookVars, now, currentTime, timeRange, isRangeMode, dataSources, winGen,
                 aggIn, aggOut>>

\* axios.get rejects (network error, timeout, error status) for task i of call c
FetchReject(c, i) ==
  /\ c \in 1..Len(calls)
  /\ i \in 1..Len(calls[c].tasks)
  /\ calls[c].tasks[i].pc = "fetching"
  /\ \E rnd \in 0..(RandGrain - 1) :
       CompleteTask(c, i, fetchWeatherDataRejected(weatherDataCache,
                                                   calls[c].tasks[i], rnd))
  /\ lastOp' = NoOp
  /\ UNCHANGED <<extraVars, hookVars, now, currentTime, timeRange, isRangeMode, dataSources, winGen,
                 aggIn, aggOut>>

\* setCurrentTime(time)
SetCurrentTime(time) ==
  /\ winGen < MaxWindowChanges
  /\ time # currentTime
  /\ currentTime' = time
  /\ winGen' = IF isRangeMode THEN winGen ELSE winGen + 1
  /\ lastOp' = NoOp
  /\ UNCHANGED <<extraVars, hookVars, now, timeRange, isRangeMode, polygons, dataSources,
                 weatherDataCache, calls, written, aggIn, aggOut>>

\* setRangeMode(isRange)
SetRangeMode(isRange) ==
  /\ winGen < MaxWindowChanges
  /\ isRange # isRangeMode
  /\ isRangeMode' = isRange
  /\ winGen' = winGen + 1
  /\ lastOp' = NoOp
  /\ UNCHANGED <<extraVars, hookVars, now, currentTime, timeRange, polygons, dataSources,
                 weatherDataCache, calls, written, aggIn, aggOut>>

\* the clock readings explored: whole hours plus a few milliseconds
ClockReadings ==
  {h * MsPerHour + ms : h \in 0..MaxClockHours, ms \in 0..MaxClockSlack}

\* time passes
Tick(d) ==
  /\ now + d \in ClockReadings
  /\ now' = now + d
  /\ lastOp' = NoOp
  /\ UNCHANGED <<extraVars, hookVars, currentTime, timeRange, isRangeMode, polygons, dataSources,
                 weatherDataCache, calls, winGen, written, aggIn, aggOut>>

Next ==
  \/ RefreshAll
  \/ \E id \in PolygonIds : RefreshOne(id)
  \/ \E c \in 1..MaxCalls : \E i \in 1..Len(InitialPolygons) : FetchResolve(c, i)
  \/ \E c \in 1..MaxCalls : \E i \in 1..Len(InitialPolygons) : FetchReject(c, i)
  \/ \E time \in TimeChoices : SetCurrentTime(time)
  \/ \E isRange \in BOOLEAN : SetRangeMode(isRange)

Spec == Init /\ [][Next]_vars

----------------------------------------------------------------------------
(* The WeatherCache under a moving clock: SpecCache calls the store's      *)
(* cacheWeatherData and getCachedWeatherData directly, SpecAging reaches   *)
(* them through refreshSinglePolygon                                       *)

\* the keys in use, and the payloads fetchWeatherData stores under a key
KeysInUse == {cacheKey(InitialPolygons[i]) : i \in 1..Len(InitialPolygons)}

Storable(key) ==
  {payload \in ProviderPayloads(getDataSourceById(key[3]).field) :
     payload.hasData /\ payload.hasHourly}

\* cacheWeatherData(key, data)
CachePut(key, data) ==
  /\ weatherDataCache' = cacheWeatherData(weatherDataCache, key, data)
  /\ lastOp' = [op |-> "put", key |-> key, had |-> key \in DOMAIN weatherDataCache,
                age |-> 0, found |-> FALSE, data |-> data,
                prevOp |-> lastOp.op, prevKey |-> lastOp.key,
                prevData |-> lastOp.data]
  /\ UNCHANGED <<extraVars, hookVars, now, currentTime, timeRange, isRangeMode, polygons, dataSources,
                 calls, winGen, written, aggIn, aggOut>>

\* getCachedWeatherData(key)
CacheGet(key) ==
  LET got == getCachedWeatherData(weatherDataCache, key)
      had == key \in DOMAIN weatherDataCache
  IN /\ weatherDataCache' = got.cache
     /\ lastOp' = [op |-> "get", key |-> key, had |-> had,
                   age |-> IF had THEN now - weatherDataCache[key].timestamp ELSE 0,
                   found |-> got.found, data |-> got.data,
                   prevOp |-> lastOp.op, prevKey |-> lastOp.key,
                   prevData |-> lastOp.data]
     /\ UNCHANGED <<extraVars, hookVars, now, currentTime, timeRange, isRangeMode, polygons,
                    dataSources, calls, winGen, written, aggIn, aggOut>>

NextCache ==
  \/ \E key \in KeysInUse : \E data \in Storable(key) : CachePut(key, data)
  \/ \E key \in KeysInUse : CacheGet(key)
  \/ \E d \in {1, MsPerHour} : Tick(d)

SpecCache == Init /\ [][NextCache]_vars

\* single-region refreshes while the clock moves
NextAging ==
  \/ \E id \in PolygonIds : RefreshOne(id)
  \/ \E c \in 1..MaxCalls : FetchResolve(c, 1)
  \/ \E c \in 1..MaxCalls : FetchReject(c, 1)
  \/ \E d \in {1, MsPerHour} : Tick(d)

SpecAging == Init /\ [][NextAging]_vars

----------------------------------------------------------------------------
(* Claims about the refresh pipeline, checked under Spec *)

CallIds == 1..Len(calls)
TaskIds(c) == 1..Len(calls[c].tasks)

\* C1: when refreshAll runs for window W1 and again for W2 # W1 before the
\* first call has finished, then once both calls have completed (the window
\* still being W2) every region's recorded value is an aggregate over W2,
\* never one over W1.
C1_LaterCallWins ==
  \A c1 \in CallIds : \A c2 \in CallIds :
    ( /\ c1 < c2
      /\ calls[c1].kind = "all" /\ calls[c2].kind = "all"
      /\ c1 \in calls[c2].during
      /\ calls[c1].win0 # calls[c2].win0
      /\ calls[c1].pc = "done" /\ calls[c2].pc = "done"
      /\ winGen = calls[c2].gen0 )
    => \A id \in PolygonIds :
         written[id].synthetic \/ written[id].window = calls[c2].win0

\* C2: the value a refreshAll call writes to a region is aggregated over the
\* TimeWindow that was current when the call started, whatever the window
\* was changed to while the fetch was in flight.
C2_WriteUsesStartWindow ==
  \A c \in CallIds :
    (calls[c].kind = "all" /\ calls[c].pc = "done")
    => \A i \in TaskIds(c) :
         calls[c].tasks[i].synthetic \/ calls[c].tasks[i].window = calls[c].win0

\* C3: whenever a refresh has written a synthetic value to a region, the
\* error recorded on that region is non-null.
C3_SyntheticHasError ==
  \A i \in 1..Len(polygons) :
    (written[polygons[i].id].call # 0 /\ written[polygons[i].id].synthetic)
    => polygons[i].error # NoError

\* C4: fetchWeatherData never raises (every finished task carries a number and
\* no error), and when the fetch fails or the payload fails validation the
\* number is the synthetic fallback and the cache is left as it was.
C4_FailureIsSyntheticAndLeavesCache ==
  [][\A c \in CallIds : \A i \in TaskIds(c) :
       ( /\ calls[c].tasks[i].pc = "fetching"
         /\ calls'[c].tasks[i].pc = "done"
         /\ \/ calls'[c].tasks[i].outcome = "netfail"
            \/ ~validateApiResponse(calls'[c].tasks[i].received) )
       => /\ calls'[c].tasks[i].synthetic
          /\ calls'[c].tasks[i].error = NoError
          /\ calls'[c].tasks[i].value \in Int
          /\ weatherDataCache' = weatherDataCache]_vars

\* the payload shape a cache entry must have: an hourly object with a
\* non-empty time array and the value array of the requested field
WellFormed(payload, field) ==
  /\ payload.hasData
  /\ payload.hasHourly
  /\ payload.hasTime
  /\ Len(payload.time) > 0
  /\ payload.field = field

\* C5: a provider response is stored in the cache only if it passes
\* validation: no entry lacks the hourly object, the time array, a sample, or
\* the value array of the key's metric field.
C5_CacheHoldsOnlyValidPayloads ==
  \A k \in DOMAIN weatherDataCache :
    WellFormed(weatherDataCache[k].data, getDataSourceById(k[3]).field)

\* C6: the synthetic fallback for a failed HTTP fetch is taken only after the
\* retry budget (3 attempts) is used up.
C6_FallbackAfterRetries ==
  \A c \in CallIds : \A i \in TaskIds(c) :
    (calls[c].tasks[i].pc = "done" /\ calls[c].tasks[i].outcome = "netfail")
    => calls[c].tasks[i].attempts = DefaultMaxRetries

\* C9: when a fetch completes with a cacheable payload, the cache entry of
\* its key becomes exactly that payload (whole, stamped now), whatever entry
\* a concurrent fetch of the same key left there; every other key keeps its
\* entry; no error is raised.
C9_LastWriteWins ==
  [][\A c \in CallIds : \A i \in TaskIds(c) :
       ( /\ calls[c].tasks[i].pc = "fetching"
         /\ calls'[c].tasks[i].pc = "done"
         /\ calls'[c].tasks[i].outcome = "fetched" )
       => LET key == calls[c].tasks[i].key
          IN /\ DOMAIN weatherDataCache' = (DOMAIN weatherDataCache) \cup {key}
             /\ weatherDataCache'[key] =
                  [data |-> calls'[c].tasks[i].received, timestamp |-> now]
             /\ \A k \in (DOMAIN weatherDataCache) \ {key} :
                  weatherDataCache'[k] = weatherDataCache[k]
             /\ calls'[c].tasks[i].error = NoError]_vars

\* two regions of one call with the same key both fetched, with different
\* payloads, the entry holds the second region's, and another key is cached
C9_Witness ==
  \E c \in CallIds : \E i \in TaskIds(c) : \E j \in TaskIds(c) :
    /\ i < j
    /\ calls[c].tasks[i].key = calls[c].tasks[j].key
    /\ calls[c].tasks[i].polygonId # calls[c].tasks[j].polygonId
    /\ calls[c].tasks[i].outcome = "fetched"
    /\ calls[c].tasks[j].outcome = "fetched"
    /\ calls[c].tasks[i].received # calls[c].tasks[j].received
    /\ calls[c].tasks[i].key \in DOMAIN weatherDataCache
    /\ weatherDataCache[calls[c].tasks[i].key].data = calls[c].tasks[i].received
    /\ \E k \in DOMAIN weatherDataCache : k # calls[c].tasks[i].key

----------------------------------------------------------------------------
(* Claims about the WeatherCache, checked under SpecCache and SpecAging *)

\* C7: put(k, s) stores s stamped now; get(k) right after put(k, s) returns
\* s; get(k) returns the stored series while now - fetchedAt <= 1 hour (an
\* entry aged exactly 1 hour included) and leaves the entry; get(k) with
\* now - fetchedAt > 1 hour returns absent and k is no longer a key.
C7_GetAfterPutAndExpiry ==
  /\ lastOp.op = "put" =>
       /\ lastOp.key \in DOMAIN weatherDataCache
       /\ weatherDataCache[lastOp.key] = [data |-> lastOp.data, timestamp |-> now]
  /\ lastOp.op = "get" =>
       /\ (lastOp.prevOp = "put" /\ lastOp.prevKey = lastOp.key)
            => (lastOp.found /\ lastOp.data = lastOp.prevData)
       /\ (lastOp.had /\ lastOp.age <= CacheTtlMs)
            => /\ lastOp.found
               /\ lastOp.key \in DOMAIN weatherDataCache
               /\ weatherDataCache[lastOp.key].data = lastOp.data
               /\ now - weatherDataCache[lastOp.key].timestamp = lastOp.age
       /\ (lastOp.had /\ lastOp.age > CacheTtlMs)
            => (~lastOp.found /\ lastOp.key \notin DOMAIN weatherDataCache)
       /\ ~lastOp.had => ~lastOp.found

\* a get that found an entry older than one hour, returned absent and
\* removed the key
C7_Witness ==
  /\ lastOp.op = "get"
  /\ lastOp.had
  /\ lastOp.age > CacheTtlMs
  /\ ~lastOp.found
  /\ lastOp.key \notin DOMAIN weatherDataCache

\* the values generateMockData may return for a data source
MockValues(dataSourceId) ==
  {generateMockData(dataSourceId, rnd) : rnd \in 0..(RandGrain - 1)}

\* C8: when a refresh starts while the cache holds an unexpired entry for the
\* region's key, fetchWeatherData issues no HTTP request, its result is
\* calculateCurrentValue of the cached payload, and the entry (payload and
\* timestamp) stays as it was.
C8_HitSkipsNetwork ==
  [][Len(calls') = Len(calls) + 1 =>
       LET call == calls'[Len(calls')]
       IN \A i \in 1..Len(call.tasks) :
            LET key == call.tasks[i].key
                t == call.tasks[i]
            IN ( /\ key \in DOMAIN weatherDataCache
                 /\ now - weatherDataCache[key].timestamp <= CacheTtlMs )
               => LET r == calculateCurrentValue(weatherDataCache[key].data,
                                                 t.dataSource)
                  IN /\ t.pc = "done"
                     /\ t.attempts = 0
                     /\ t.synthetic = r.mock
                     /\ IF r.mock THEN t.value \in MockValues(t.dataSource)
                                  ELSE t.value = r.v
                     /\ key \in DOMAIN weatherDataCache'
                     /\ weatherDataCache'[key] = weatherDataCache[key]]_vars

\* a region just refreshed, with a real aggregate and no request, from the
\* entry another region of the same rounded centroid fetched exactly one hour
\* earlier
C8_Witness ==
  \E c \in CallIds :
    LET t == calls[c].tasks[1]
    IN /\ t.outcome = "hit"
       /\ t.attempts = 0
       /\ ~t.synthetic
       /\ t.key \in DOMAIN weatherDataCache
       /\ now - weatherDataCache[t.key].timestamp = CacheTtlMs
       /\ \E c0 \in CallIds :
            /\ calls[c0].tasks[1].outcome = "fetched"
            /\ calls[c0].tasks[1].key = t.key
            /\ calls[c0].tasks[1].polygonId # t.polygonId
       /\ \E i \in 1..Len(polygons) :
            /\ polygons[i].id = t.polygonId
            /\ polygons[i].lastUpdated = Num(now)
            /\ polygons[i].data = Num(t.value)

----------------------------------------------------------------------------
(* The aggregation as a function of payload and window: SpecAgg *)

MaxSamples == 3
MockGrain == 4

SampleValues ==
  {V(1000), V(2000), V(3000), V(1234), V(1235), V(0 - 255), VNull, VNaN}

\* hourly stamps 0, 1, ..., n - 1 with every choice of samples, the value
\* array possibly shorter than the stamps, and the malformed shapes
AggPayloads ==
  UNION { { Payload(TRUE, TRUE, TRUE, [i \in 1..n |-> i - 1], "temperature_2m", vs)
              : vs \in UNION {[1..m -> SampleValues] : m \in {n - 1, n} \cap 0..n} }
          : n \in 0..MaxSamples }
    \cup { Payload(TRUE, TRUE, FALSE, <<>>, "temperature_2m", <<V(1000)>>),
           Payload(TRUE, TRUE, TRUE, <<0, 1, 2>>, "", <<>>),
           Payload(TRUE, FALSE, FALSE, <<>>, "", <<>>) }

\* the other metrics, one of them unknown to the store, with a few payloads
OtherSources == {"humidity", "precipitation", "wind"}

OtherPayloads ==
  { Payload(TRUE, TRUE, TRUE, <<0, 1, 2>>, "temperature_2m",
            <<V(1000), V(2000), V(3000)>>),
    Payload(TRUE, TRUE, TRUE, <<5, 6>>, "relativehumidity_2m",
            <<V(5000), V(6000)>>),
    Payload(TRUE, TRUE, TRUE, <<0, 1>>, "precipitation", <<VNull, VNaN>>),
    Payload(TRUE, TRUE, TRUE, <<>>, "precipitation", <<>>) }

AggInstants == {0 - MsPerHour, 0, MsPerHour \div 2, MsPerHour, 2 * MsPerHour}

AggRanges ==
  { [start |-> 0 - 24 * MsPerHour, end |-> 24 * MsPerHour],
    [start |-> 0, end |-> 2 * MsPerHour],
    [start |-> 1, end |-> 2 * MsPerHour - 1] }

InitAgg ==
  /\ InitStore
  /\ InitExtra
  /\ polygons = InitialPolygons
  /\ lastOp = NoOp
  /\ aggOut = NoResult
  /\ aggIn \in [payload : AggPayloads, dataSourceId : {"temperature"}]
               \cup [payload : OtherPayloads, dataSourceId : OtherSources]
  /\ timeRange \in AggRanges
  /\ currentTime \in AggInstants
  /\ isRangeMode \in BOOLEAN

\* calculateCurrentValue(apiData, dataSourceId) under the current TimeWindow
Aggregate ==
  /\ aggOut.state = "none"
  /\ \E rnd \in 0..(MockGrain - 1) :
       LET r == calculateCurrentValue(aggIn.payload, aggIn.dataSourceId)
       IN aggOut' = [state |-> "done", mock |-> r.mock,
                     v |-> IF r.mock
                           THEN generateMockDataOf(aggIn.dataSourceId, rnd, MockGrain)
                           ELSE r.v]
  /\ UNCHANGED <<extraVars, hookVars, now, currentTime, timeRange, isRangeMode, polygons, dataSources,
                 weatherDataCache, calls, winGen, written, lastOp, aggIn>>

SpecAgg == InitAgg /\ [][Aggregate]_vars

\* the samples the claim selects: stamp inside [start, end], both ends
\* included, value a number
InWindowSamples ==
  {i \in 1..Len(aggIn.payload.time) :
     /\ i <= Len(aggIn.payload.values)
     /\ aggIn.payload.values[i].k = "num"
     /\ aggIn.payload.time[i] * MsPerHour >= getTimeWindow.start
     /\ aggIn.payload.time[i] * MsPerHour <= getTimeWindow.end}

RECURSIVE SampleSum(_)
SampleSum(S) ==
  IF S = {} THEN 0
  ELSE LET i == CHOOSE x \in S : TRUE
       IN aggIn.payload.values[i].n + SampleSum(S \ {i})

\* the metric's series in the payload: the array under the provider field of
\* the data source, next to an array of stamps
SeriesPresent ==
  /\ aggIn.payload.hasHourly
  /\ aggIn.payload.hasTime
  /\ \E i \in 1..Len(InitialDataSources) :
       /\ InitialDataSources[i].id = aggIn.dataSourceId
       /\ InitialDataSources[i].field = aggIn.payload.field

\* C10: when some non-null sample lies inside the window (both ends
\* included), the result is the arithmetic mean of exactly those samples
\* rounded once to one decimal: it is a tenth nearest to the exact mean
\* (samples in hundredths, result in tenths); 10, 20, 30 inside the window
\* give 20.0.
C10_MeanOfWindowRoundedOnce ==
  (aggOut.state = "done" /\ SeriesPresent /\ InWindowSamples # {})
  => LET n == Cardinality(InWindowSamples)
         sum == SampleSum(InWindowSamples)
     IN /\ ~aggOut.mock
        /\ 2 * Abs(10 * n * aggOut.v - sum) <= 10 * n
        /\ (aggIn.payload.values = <<V(1000), V(2000), V(3000)>> /\ n = 3)
             => aggOut.v = 200

\* 10, 20, 30 all inside the window were aggregated to 20.0
C10_Witness ==
  /\ aggOut.state = "done"
  /\ aggIn.payload.values = <<V(1000), V(2000), V(3000)>>
  /\ Cardinality(InWindowSamples) = 3
  /\ ~aggOut.mock
  /\ aggOut.v = 200

\* the synthetic range the claim gives for a metric, in tenths
ClaimedRange(metric) ==
  CASE metric = "temperature"   -> [min |-> -100, max |-> 350]
    [] metric = "humidity"      -> [min |-> 300, max |-> 900]
    [] metric = "precipitation" -> [min |-> 0, max |-> 200]
    [] OTHER                    -> [min |-> 0, max |-> 1000]

\* C11: when no non-null sample of the metric's series has a stamp inside
\* the window, the aggregate is synthetic and lies within the metric's range:
\* [-10, 35] for temperature, [30, 90] for humidity, [0, 20] for
\* precipitation and [0, 100] for any other metric.
C11_EmptyWindowGivesValueInRange ==
  (aggOut.state = "done" /\ (~SeriesPresent \/ InWindowSamples = {}))
  => /\ aggOut.mock
     /\ aggOut.v >= ClaimedRange(aggIn.dataSourceId).min
     /\ aggOut.v <= ClaimedRange(aggIn.dataSourceId).max

\* a humidity series whose stamps all lie outside the window was aggregated
\* to a synthetic value above the range's lower end
C11_Witness ==
  /\ aggOut.state = "done"
  /\ aggIn.dataSourceId = "humidity"
  /\ SeriesPresent
  /\ Len(aggIn.payload.values) = 2
  /\ InWindowSamples = {}
  /\ aggOut.mock
  /\ aggOut.v > 300

----------------------------------------------------------------------------
(* The color rule engine on its own: getColorForValue over the rule lists  *)
(* a data source can hold                                                   *)

MaxRules == 2

\* the colors of the editor's palette, one per position of a rule list
RuleColors == <<"#f5222d", "#fa541c", "#faad14", "#a0d911">>

\* the rules the editor can save: a primary operator and threshold, and
\* optionally a secondary operator with its threshold (thresholds in tenths)
EditorRules ==
  [operator : {"=", "<", "<=", ">", ">="}, value : {0, 150},
   operator2 : {""}, hasValue2 : {FALSE}, value2 : {0}]
  \cup [operator : {"<", "<=", ">", ">="}, value : {0, 150},
        operator2 : {"<", "<=", ">", ">="}, hasValue2 : {TRUE}, value2 : {150}]

\* rules only a persisted configuration can hold: the '==' spelling, an
\* operator matchesRule does not know, a secondary operator left without a
\* threshold, and a secondary operator outside the four comparisons
OtherRules ==
  { [operator |-> "==", value |-> 150, operator2 |-> "", hasValue2 |-> FALSE,
     value2 |-> 0],
    [operator |-> "!=", value |-> 0, operator2 |-> "", hasValue2 |-> FALSE,
     value2 |-> 0],
    [operator |-> ">=", value |-> 0, operator2 |-> "<", hasValue2 |-> FALSE,
     value2 |-> 0],
    [operator |-> ">=", value |-> 0, operator2 |-> "=", hasValue2 |-> TRUE,
     value2 |-> 150] }

WithColor(rule, i) ==
  [operator |-> rule.operator, value |-> rule.value,
   operator2 |-> rule.operator2, hasValue2 |-> rule.hasValue2,
   value2 |-> rule.value2, color |-> RuleColors[i]]

\* the rule lists of length n, the rule at position i in the i-th color
RuleLists(n) ==
  { [i \in 1..n |-> WithColor(f[i], i)]
      : f \in [1..n -> EditorRules \cup OtherRules] }

ColorValues == {Null, Num(0 - 50), Num(0), Num(100), Num(149), Num(150), Num(200)}

InitColor ==
  /\ InitStoreBut
  /\ InitTimeline
  /\ InitExtraBut
  /\ polygons = InitialPolygons
  /\ lastOp = NoOp
  /\ aggIn = NoAgg
  /\ aggOut = NoResult
  /\ \E n \in 0..MaxRules : \E rules \in RuleLists(n) :
       dataSources = << [id |-> "temperature", field |-> "temperature_2m",
                         colorRules |-> rules] >>
  /\ colorOut = NoColorOut
  /\ colorIn \in [sourceId : {"temperature"}, value : ColorValues]
                 \cup [sourceId : {"wind"}, value : {Num(100)}]

\* getColorForValue(sourceId, value) is called
EvaluateColor ==
  /\ colorOut.state = "none"
  /\ colorOut' = [state |-> "done",
                  color |-> getColorForValue(colorIn.sourceId, colorIn.value)]
  /\ UNCHANGED <<now, currentTime, timeRange, isRangeMode, polygons, dataSources,
                 weatherDataCache, calls, winGen, written, lastOp, aggIn, aggOut,
                 colorIn, isPlaying, fractionalHours, lastCmd, cmds, hookVars>>

SpecColor == InitColor /\ [][EvaluateColor]_vars

\* the rule list colorFor is given
GivenRules == dataSources[1].colorRules

\* a rule as the specification reads it: a primary comparison among
\* = == < <= > >=, and either no secondary operator or one among < <= > >=
\* with its threshold
WellFormedRule(rule) ==
  /\ rule.operator \in {"=", "==", "<", "<=", ">", ">="}
  /\ \/ rule.operator2 = ""
     \/ rule.operator2 \in {"<", "<=", ">", ">="} /\ rule.hasValue2

\* the full condition of a rule on a number x
PrimaryHolds(rule, x) ==
  \/ rule.operator \in {"=", "=="} /\ x = rule.value
  \/ rule.operator = "<" /\ x < rule.value
  \/ rule.operator = "<=" /\ x <= rule.value
  \/ rule.operator = ">" /\ x > rule.value
  \/ rule.operator = ">=" /\ x >= rule.value

SecondaryHolds(rule, x) ==
  \/ rule.operator2 = "<" /\ x < rule.value2
  \/ rule.operator2 = "<=" /\ x <= rule.value2
  \/ rule.operator2 = ">" /\ x > rule.value2
  \/ rule.operator2 = ">=" /\ x >= rule.value2

FullConditionHolds(rule, x) ==
  PrimaryHolds(rule, x) /\ (rule.operator2 # "" => SecondaryHolds(rule, x))

----------------------------------------------------------------------------
(* Rule validation (src/src/utils/colorUtils.js) and the rule editor       *)
(* (src/src/components/Sidebar/ColorRuleEditor.tsx), checked under         *)
(* SpecRules                                                               *)

MaxAddedRules == 1

\* the strings /^#[0-9A-F]{6}$/i accepts, among the colors in use
HexColors ==
  {"#f5222d", "#fa541c", "#faad14", "#a0d911", "#52c41a", "#13c2c2",
   "#1890ff", "#2f54eb", "#722ed1", "#eb2f96", "#666666", "#d9d9d9"}

\* validateColorRule(rule): the errors it pushes, one tag per message; the
\* rule's value is a number here, so 'Value must be a valid number' never is
\* among them
validateColorRule(rule) ==
  (IF rule.color \notin HexColors THEN {"color"} ELSE {})
  \cup (IF rule.operator \notin {"=", "==", "<", "<=", ">", ">="}
        THEN {"operator"} ELSE {})
  \cup (IF rule.operator2 # "" /\ rule.operator2 \notin {"<", "<=", ">", ">="}
        THEN {"operator2"} ELSE {})
  \cup (IF rule.operator2 # "" /\ ~rule.hasValue2 THEN {"value2"} ELSE {})
  \cup (IF /\ rule.operator2 # ""
           /\ rule.hasValue2
           /\ \/ /\ rule.operator = ">="
                 /\ rule.operator2 = "<"
                 /\ rule.value >= rule.value2
              \/ /\ rule.operator = ">"
                 /\ rule.operator2 = "<="
                 /\ rule.value >= rule.value2
        THEN {"range"} ELSE {})

\* addColorRule(sourceId, rule)
addColorRule(sourceId, rule) ==
  [i \in 1..Len(dataSources) |->
     IF dataSources[i].id = sourceId
     THEN [dataSources[i] EXCEPT !.colorRules = Append(@, rule)]
     ELSE dataSources[i]]

\* the rules handed to validateColorRule
CandidateRules ==
  [operator : {"=", "<", ">", ">=", "!="}, value : {0, 150, 200},
   operator2 : {"", "<", "<=", ">", "="}, hasValue2 : BOOLEAN, value2 : {150},
   color : {"#52c41a", "green"}]

\* the rules the editor's form can hold when Add is pressed: the secondary
\* operator is offered unless the primary is '=', its threshold once it is
\* chosen
FormRules ==
  {rule \in [operator : {"=", "<", ">", ">="}, value : {0, 150, 200},
             operator2 : {"", "<", "<="}, hasValue2 : BOOLEAN, value2 : {150},
             color : {"#722ed1"}] :
     /\ rule.operator = "=" => rule.operator2 = ""
     /\ rule.hasValue2 => rule.operator2 # ""}

\* validateColorRule(rule) is called
ValidateColorRule(rule) ==
  /\ validation' = [state |-> "done", rule |-> rule,
                    errors |-> validateColorRule(rule)]
  /\ UNCHANGED <<extraVars, now, currentTime, timeRange, isRangeMode, polygons,
                 dataSources, weatherDataCache, calls, winGen, written, lastOp,
                 aggIn, aggOut, timers, debounceTimer, timerCount, lastChange,
                 startsSinceChange, statsOut, lastEdit, retry,
                 batch>>

\* handleAddRule of the editor of data source sourceId: the form's value is
\* a number, so the rule goes to addColorRule
HandleAddRule(sourceId, rule) ==
  /\ Len(getDataSourceById(sourceId).colorRules)
       < Len(InitialDataSources[1].colorRules) + MaxAddedRules
  /\ dataSources' = addColorRule(sourceId, rule)
  /\ UNCHANGED <<extraVars, hookVars, now, currentTime, timeRange, isRangeMode,
                 polygons, weatherDataCache, calls, winGen, written, lastOp,
                 aggIn, aggOut>>

NextRules ==
  \/ \E rule \in CandidateRules : ValidateColorRule(rule)
  \/ \E rule \in FormRules : HandleAddRule("temperature", rule)

SpecRules == Init /\ [][NextRules]_vars

\* the rule has a lower bound first and an upper bound second, and the
\* first threshold is not below the second
BoundsOutOfOrder(rule) ==
  /\ rule.operator \in {">", ">="}
  /\ rule.operator2 \in {"<", "<="}
  /\ rule.hasValue2
  /\ rule.value >= rule.value2

\* C27: validateColorRule reports an error for every compound rule whose
\* primary operator is > or >=, whose secondary operator is < or <= and whose
\* primary threshold is not below the secondary one, for all four operator
\* combinations; and no such rule is in a metric's rule list.
C27_BoundsOutOfOrderRejected ==
  /\ (validation.state = "done" /\ BoundsOutOfOrder(validation.rule))
       => validation.errors # {}
  /\ \A i \in 1..Len(dataSources) :
       \A k \in 1..Len(dataSources[i].colorRules) :
         ~BoundsOutOfOrder(dataSources[i].colorRules[k])

----------------------------------------------------------------------------
(* The timeline controls: the useTimelineState hook (src/unnamed/part_000, *)
(* lines 206-375) and the TimelineSlider component (src/unnamed/part_005). *)
(* Hour amounts handed to addHours / subHours are given in hundredths of   *)
(* an hour, so that a fraction of an hour (7.2 h of a slider step, 1.5 h   *)
(* of half a duration) is an integer.  date-fns 2 truncates the amount to  *)
(* a whole number of hours, date-fns 3 and later keep the fraction; the    *)
(* source does not pin the version, so fractionalHours is either.          *)
(* The 30 days of the timeline exceed 2^31 milliseconds: sums and          *)
(* differences are taken in two steps that each stay below it.             *)

MaxCommands == 4
MaxSliderSpan == 5

HorizonHours == 15 * 24

\* h hours as an amount
Hours(h) == 100 * h

\* date + amount * msPerAmount
Plus(date, amount, msPerAmount) ==
  LET half == amount \div 2
  IN (date + half * msPerAmount) + (amount - half) * msPerAmount

\* Math.trunc(x / d) for d > 0
Trunc(x, d) == IF x >= 0 THEN x \div d ELSE 0 - ((0 - x) \div d)

\* date-fns: Math.trunc((dateLeft - dateRight) / 3600000), from the whole
\* hours and the remainders of the two instants
differenceInHours(dateLeft, dateRight) ==
  LET d == (dateLeft \div MsPerHour) - (dateRight \div MsPerHour)
      r == (dateLeft % MsPerHour) - (dateRight % MsPerHour)
  IN IF d > 0 THEN (IF r < 0 THEN d - 1 ELSE d)
     ELSE IF d < 0 THEN (IF r > 0 THEN d + 1 ELSE d)
     ELSE 0

addHours(date, amount) ==
  IF fractionalHours THEN Plus(date, amount, MsPerHour \div 100)
  ELSE Plus(date, Trunc(amount, 100), MsPerHour)

subHours(date, amount) == addHours(date, 0 - amount)

isAfter(date, dateToCompare) == date > dateToCompare

isBefore(date, dateToCompare) == date < dateToCompare

\* Timeline boundaries (15 days before and after current date)
timelineStart == subHours(now, Hours(HorizonHours))

timelineEnd == addHours(now, Hours(HorizonHours))

\* what a command leaves in the store, and what it returned (TRUE when it
\* returns nothing)
Outcome(result, time, range, playing) ==
  [result |-> result, currentTime |-> time, timeRange |-> range,
   isPlaying |-> playing]

moveTimeForward(hours) ==
  IF isRangeMode
  THEN LET duration == differenceInHours(timeRange.end, timeRange.start)
           newStart == addHours(timeRange.start, Hours(hours))
           newEnd == addHours(newStart, Hours(duration))
       IN IF isAfter(newEnd, timelineEnd)
          THEN Outcome(FALSE, currentTime, timeRange, FALSE)
          ELSE Outcome(TRUE, currentTime, [start |-> newStart, end |-> newEnd],
                       isPlaying)
  ELSE LET newTime == addHours(currentTime, Hours(hours))
       IN IF isAfter(newTime, timelineEnd)
          THEN Outcome(FALSE, currentTime, timeRange, FALSE)
          ELSE Outcome(TRUE, newTime, timeRange, isPlaying)

\* faulty variant, for comparison: a rejected backward step stops playback,
\* as a rejected forward step does
moveTimeBackwardStopsPlayback(hours) ==
  IF isRangeMode
  THEN LET duration == differenceInHours(timeRange.end, timeRange.start)
           newStart == subHours(timeRange.start, Hours(hours))
           newEnd == addHours(newStart, Hours(duration))
       IN IF isBefore(newStart, timelineStart)
          THEN Outcome(FALSE, currentTime, timeRange, FALSE)
          ELSE Outcome(TRUE, currentTime, [start |-> newStart, end |-> newEnd],
                       isPlaying)
  ELSE LET newTime == subHours(currentTime, Hours(hours))
       IN IF isBefore(newTime, timelineStart)
          THEN Outcome(FALSE, currentTime, timeRange, FALSE)
          ELSE Outcome(TRUE, newTime, timeRange, isPlaying)

moveTimeBackward(hours) ==
  IF isRangeMode
  THEN LET duration == differenceInHours(timeRange.end, timeRange.start)
           newStart == subHours(timeRange.start, Hours(hours))
           newEnd == addHours(newStart, Hours(duration))
       IN IF isBefore(newStart, timelineStart)
          THEN Outcome(FALSE, currentTime, timeRange, isPlaying)
          ELSE Outcome(TRUE, currentTime, [start |-> newStart, end |-> newEnd],
                       isPlaying)
  ELSE LET newTime == subHours(currentTime, Hours(hours))
       IN IF isBefore(newTime, timelineStart)
          THEN Outcome(FALSE, currentTime, timeRange, isPlaying)
          ELSE Outcome(TRUE, newTime, timeRange, isPlaying)

\* faulty variant, for comparison: the horizon's end itself is refused
jumpToTimeBeforeEnd(targetTime) ==
  IF isBefore(targetTime, timelineStart) \/ ~isBefore(targetTime, timelineEnd)
  THEN Outcome(FALSE, currentTime, timeRange, isPlaying)
  ELSE IF isRangeMode
       THEN LET duration == differenceInHours(timeRange.end, timeRange.start)
                newEnd == addHours(targetTime, Hours(duration))
            IN Outcome(TRUE, currentTime, [start |-> targetTime, end |-> newEnd],
                       isPlaying)
       ELSE Outcome(TRUE, targetTime, timeRange, isPlaying)

jumpToTime(targetTime) ==
  IF isBefore(targetTime, timelineStart) \/ isAfter(targetTime, timelineEnd)
  THEN Outcome(FALSE, currentTime, timeRange, isPlaying)
  ELSE IF isRangeMode
       THEN LET duration == differenceInHours(timeRange.end, timeRange.start)
                newEnd == addHours(targetTime, Hours(duration))
            IN IF isAfter(newEnd, timelineEnd)
               THEN LET adjustedStart == subHours(timelineEnd, Hours(duration))
                    IN Outcome(TRUE, currentTime,
                               [start |-> adjustedStart, end |-> timelineEnd],
                               isPlaying)
               ELSE Outcome(TRUE, currentTime,
                            [start |-> targetTime, end |-> newEnd], isPlaying)
       ELSE Outcome(TRUE, targetTime, timeRange, isPlaying)

setTimeRangeDuration(hours) ==
  LET newEnd == addHours(timeRange.start, Hours(hours))
  IN IF isAfter(newEnd, timelineEnd)
     THEN LET adjustedStart == subHours(timelineEnd, Hours(hours))
          IN Outcome(TRUE, currentTime,
                     [start |-> adjustedStart, end |-> timelineEnd], isPlaying)
     ELSE Outcome(TRUE, currentTime,
                  [start |-> timeRange.start, end |-> newEnd], isPlaying)

\* duration / 2 hours is the amount Hours(duration) \div 2
resetToNow ==
  IF isRangeMode
  THEN LET duration == differenceInHours(timeRange.end, timeRange.start)
           newStart == subHours(now, Hours(duration) \div 2)
           newEnd == addHours(now, Hours(duration) \div 2)
       IN Outcome(TRUE, currentTime, [start |-> newStart, end |-> newEnd],
                  isPlaying)
  ELSE Outcome(TRUE, now, timeRange, isPlaying)

\* faulty variant, for comparison: a rejected step leaves playback running
playbackTickKeepsPlaying ==
  LET moved == moveTimeForward(1)
  IN IF moved.result THEN moved
     ELSE Outcome(FALSE, currentTime, timeRange, isPlaying)

\* the interval callback of the hook's playback effect
playbackTick ==
  LET moved == moveTimeForward(1)
  IN IF moved.result THEN moved
     ELSE Outcome(FALSE, moved.currentTime, moved.timeRange, FALSE)

\* TimelineSlider: slider value (0-100) to time
sliderValueToTime(value) ==
  LET totalHours == differenceInHours(timelineEnd, timelineStart)
  IN addHours(timelineStart, value * totalHours)

handleTimeChange(value) ==
  Outcome(TRUE, sliderValueToTime(value), timeRange, isPlaying)

handleRangeChange(start, end) ==
  Outcome(TRUE, currentTime,
          [start |-> sliderValueToTime(start), end |-> sliderValueToTime(end)],
          isPlaying)

\* TimelineSlider's step buttons
stepBackward ==
  IF isRangeMode
  THEN LET duration == differenceInHours(timeRange.end, timeRange.start)
           newStart == subHours(timeRange.start, Hours(1))
           newEnd == addHours(newStart, Hours(duration))
       IN Outcome(TRUE, currentTime, [start |-> newStart, end |-> newEnd],
                  isPlaying)
  ELSE Outcome(TRUE, subHours(currentTime, Hours(1)), timeRange, isPlaying)

stepForward ==
  IF isRangeMode
  THEN LET duration == differenceInHours(timeRange.end, timeRange.start)
           newStart == addHours(timeRange.start, Hours(1))
           newEnd == addHours(newStart, Hours(duration))
       IN Outcome(TRUE, currentTime, [start |-> newStart, end |-> newEnd],
                  isPlaying)
  ELSE Outcome(TRUE, addHours(currentTime, Hours(1)), timeRange, isPlaying)

\* the interval callback of TimelineSlider's playback effect
sliderPlaybackTick ==
  IF isRangeMode
  THEN LET duration == differenceInHours(timeRange.end, timeRange.start)
           newStart == addHours(timeRange.start, Hours(1))
           newEnd == addHours(newStart, Hours(duration))
       IN IF newEnd > timelineEnd
          THEN Outcome(FALSE, currentTime, timeRange, FALSE)
          ELSE Outcome(TRUE, currentTime, [start |-> newStart, end |-> newEnd],
                       isPlaying)
  ELSE LET newTime == addHours(currentTime, Hours(1))
       IN IF newTime > timelineEnd
          THEN Outcome(FALSE, currentTime, timeRange, FALSE)
          ELSE Outcome(TRUE, newTime, timeRange, isPlaying)

\* inputs of the commands
StepHours == {1, 8}
DurationHours == {3, 72}
SliderValues == {0, 95, 99, 100}
JumpTargets ==
  {timelineStart - 1, timelineStart, now + 90 * (MsPerHour \div 60),
   timelineEnd - MsPerHour, timelineEnd, timelineEnd + 1}

\* a command ran: the store holds its outcome, lastCmd its arguments, its
\* result and the timeline it started from
Command(op, hours, target, outcome) ==
  /\ currentTime' = outcome.currentTime
  /\ timeRange' = outcome.timeRange
  /\ isPlaying' = outcome.isPlaying
  /\ lastCmd' = [op |-> op, hours |-> hours, target |-> target,
                 result |-> outcome.result, mode |-> isRangeMode,
                 time |-> currentTime, range |-> timeRange,
                 playing |-> isPlaying]
  /\ UNCHANGED <<now, polygons, dataSources, weatherDataCache, calls, winGen,
                 written, lastOp, aggIn, aggOut, colorIn, colorOut,
                 fractionalHours, hookVars>>

UserCommand(op, hours, target, outcome) ==
  /\ cmds < MaxCommands
  /\ cmds' = cmds + 1
  /\ UNCHANGED isRangeMode
  /\ Command(op, hours, target, outcome)

MoveTimeForward(hours) ==
  UserCommand("moveTimeForward", hours, 0, moveTimeForward(hours))

MoveTimeBackward(hours) ==
  UserCommand("moveTimeBackward", hours, 0, moveTimeBackward(hours))

JumpToTime(targetTime) ==
  UserCommand("jumpToTime", 0, targetTime, jumpToTime(targetTime))

\* range mode only
SetTimeRangeDuration(hours) ==
  /\ isRangeMode
  /\ UserCommand("setTimeRangeDuration", hours, 0, setTimeRangeDuration(hours))

ResetToNow == UserCommand("resetToNow", 0, 0, resetToNow)

\* the single slider is shown in instant mode, the range slider in range mode
HandleTimeChange(value) ==
  /\ ~isRangeMode
  /\ UserCommand("handleTimeChange", 0, value, handleTimeChange(value))

\* the two handles of the range slider, at most MaxSliderSpan apart
HandleRangeChange(start, end) ==
  /\ isRangeMode
  /\ start <= end
  /\ end - start <= MaxSliderSpan
  /\ UserCommand("handleRangeChange", start, end, handleRangeChange(start, end))

StepBackward == UserCommand("stepBackward", 1, 0, stepBackward)

StepForward == UserCommand("stepForward", 1, 0, stepForward)

\* the Play button is shown while paused, the Pause button while playing
HandlePlay ==
  /\ ~isPlaying
  /\ UserCommand("handlePlay", 0, 0, Outcome(TRUE, currentTime, timeRange, TRUE))

HandlePause ==
  /\ isPlaying
  /\ UserCommand("handlePause", 0, 0, Outcome(TRUE, currentTime, timeRange, FALSE))

\* the Switch: setRangeMode(checked)
ToggleRangeMode ==
  /\ cmds < MaxCommands
  /\ cmds' = cmds + 1
  /\ isRangeMode' = ~isRangeMode
  /\ Command("setRangeMode", 0, 0, Outcome(TRUE, currentTime, timeRange, isPlaying))

\* the timeline at construction, under either date-fns
InitControls ==
  /\ InitStore
  /\ InitTimeline
  /\ polygons = InitialPolygons
  /\ lastOp = NoOp
  /\ aggIn = NoAgg
  /\ aggOut = NoResult
  /\ colorIn = NoColorIn
  /\ colorOut = NoColorOut
  /\ isPlaying = FALSE
  /\ fractionalHours \in BOOLEAN
  /\ lastCmd = NoCmd
  /\ cmds = 0
  /\ InitHooks

NextControls ==
  \/ \E hours \in StepHours : MoveTimeForward(hours)
  \/ \E hours \in StepHours : MoveTimeBackward(hours)
  \/ \E targetTime \in JumpTargets : JumpToTime(targetTime)
  \/ \E hours \in DurationHours : SetTimeRangeDuration(hours)
  \/ ResetToNow
  \/ \E value \in SliderValues : HandleTimeChange(value)
  \/ \E start, end \in SliderValues : HandleRangeChange(start, end)
  \/ StepBackward
  \/ StepForward
  \/ HandlePlay
  \/ HandlePause
  \/ ToggleRangeMode

SpecTimeline == InitControls /\ [][NextControls]_vars

----------------------------------------------------------------------------
(* Claims about the timeline controls, checked under SpecTimeline *)

\* the range a command started from, its length, and the hours it was given
PriorLength == lastCmd.range.end - lastCmd.range.start
GivenMs == lastCmd.hours * MsPerHour

\* C13: in every reachable state both bounds of the effective TimeWindow
\* (instant mode [t, t + 1h], range mode [start, end]) lie within the horizon
\* [now - 15d, now + 15d], end >= start, and in range mode start < end.
C13_WindowWithinHorizon ==
  /\ getTimeWindow.start >= timelineStart
  /\ getTimeWindow.end <= timelineEnd
  /\ getTimeWindow.end >= getTimeWindow.start
  /\ isRangeMode => timeRange.start < timeRange.end

\* the window a forward step by the given hours would produce (the instant,
\* or both bounds, moved by that many hours) passes the horizon's end
StepWouldPassEnd ==
  IF lastCmd.mode THEN lastCmd.range.end + GivenMs > timelineEnd
  ELSE lastCmd.time + GivenMs > timelineEnd

\* C14: a stepForward(h) whose result would pass the forward horizon returns
\* false and leaves the instant and the range unchanged; the only change is
\* that playback becomes inactive.
C14_ForwardOverrunRejected ==
  (lastCmd.op = "moveTimeForward" /\ StepWouldPassEnd)
  => /\ ~lastCmd.result
     /\ currentTime = lastCmd.time
     /\ timeRange = lastCmd.range
     /\ isRangeMode = lastCmd.mode
     /\ ~isPlaying

C16_StepMovesBothBoundsByH ==
  (lastCmd.op \in {"moveTimeForward", "moveTimeBackward"} /\ lastCmd.result)
  => LET by == IF lastCmd.op = "moveTimeForward" THEN GivenMs ELSE 0 - GivenMs
     IN IF lastCmd.mode
        THEN /\ timeRange.start = lastCmd.range.start + by
             /\ timeRange.end = lastCmd.range.end + by
             /\ currentTime = lastCmd.time
        ELSE /\ currentTime = lastCmd.time + by
             /\ timeRange = lastCmd.range

\* C17: setDuration(hours) never changes the range's start: afterwards start
\* is what it was and end = min(start + hours, horizonEnd).
C17_SetDurationKeepsStart ==
  lastCmd.op = "setTimeRangeDuration"
  => /\ timeRange.start = lastCmd.range.start
     /\ timeRange.end = IF lastCmd.range.start + GivenMs <= timelineEnd
                        THEN lastCmd.range.start + GivenMs
                        ELSE timelineEnd

\* C18: in range mode an accepted jumpTo(time) whose window fits in the
\* horizon leaves the window centered on time: time - start = end - time.
C18_JumpCentersRange ==
  (/\ lastCmd.op = "jumpToTime"
   /\ lastCmd.mode
   /\ lastCmd.result
   /\ lastCmd.target - PriorLength \div 2 >= timelineStart
   /\ lastCmd.target + (PriorLength - PriorLength \div 2) <= timelineEnd)
  => lastCmd.target - timeRange.start = timeRange.end - lastCmd.target

\* C19: resetToNow in range mode yields a window centered on the current
\* time whose length equals the length before the call, for every prior
\* range; in instant mode it sets the instant to the current time.
C19_ResetKeepsLength ==
  lastCmd.op = "resetToNow"
  => IF lastCmd.mode
     THEN /\ now - timeRange.start = timeRange.end - now
          /\ timeRange.end - timeRange.start = PriorLength
     ELSE currentTime = now

\* the backward step the last command was given would start before the
\* horizon (the instant, or the range's start, moved back by that many hours)
StepWouldPassStart ==
  IF lastCmd.mode THEN lastCmd.range.start - GivenMs < timelineStart
  ELSE lastCmd.time - GivenMs < timelineStart

TargetOutsideHorizon ==
  lastCmd.target < timelineStart \/ lastCmd.target > timelineEnd

\* C29: a rejected TimeWindow mutation leaves all state unchanged:
\* stepBackward(h) whose new start would lie before the horizon's start, and
\* jumpTo(t) with t outside the horizon, return false and change neither the
\* instant, the range, the mode, nor the playback flag.
C29_RejectedMutationChangesNothing ==
  (\/ lastCmd.op = "moveTimeBackward" /\ StepWouldPassStart
   \/ lastCmd.op = "jumpToTime" /\ TargetOutsideHorizon)
  => /\ ~lastCmd.result
     /\ currentTime = lastCmd.time
     /\ timeRange = lastCmd.range
     /\ isRangeMode = lastCmd.mode
     /\ isPlaying = lastCmd.playing

\* playback was running in range mode with the range starting less than eight
\* hours after the horizon's start, and a backward step of eight hours was
\* refused
C29_Witness ==
  /\ lastCmd.op = "moveTimeBackward"
  /\ lastCmd.hours = 8
  /\ lastCmd.mode
  /\ lastCmd.playing
  /\ lastCmd.range.start >= timelineStart
  /\ StepWouldPassStart
  /\ ~lastCmd.result

----------------------------------------------------------------------------
(* Playback: the interval callbacks of the two playback effects, started   *)
(* from timelines within a few hours of the horizon's end                  *)

MaxPlaybackHours == 3

\* a tick of the hook's interval / of TimelineSlider's interval; the effect
\* only installs the interval while isPlaying
PlaybackTick ==
  /\ isPlaying
  /\ UNCHANGED <<isRangeMode, cmds>>
  /\ Command("playbackTick", 1, 0, playbackTick)

SliderPlaybackTick ==
  /\ isPlaying
  /\ UNCHANGED <<isRangeMode, cmds>>
  /\ Command("sliderPlaybackTick", 1, 0, sliderPlaybackTick)

\* instants jumpToTime can set, on the hour and on the half hour
PlaybackInstants ==
  {timelineEnd - k * MsPerHour - off :
     k \in 0..MaxPlaybackHours, off \in {0, MsPerHour \div 2}}

\* ranges setTimeRangeDuration(3) and jumpToTime can set, and the range of
\* the slider handles 95 and 99
PlaybackRanges ==
  {[start |-> timelineEnd - (k + 3) * MsPerHour, end |-> timelineEnd - k * MsPerHour] :
     k \in 0..MaxPlaybackHours}
  \cup {[start |-> sliderValueToTime(95), end |-> sliderValueToTime(99)]}

InitPlayback ==
  /\ InitStore
  /\ polygons = InitialPolygons
  /\ lastOp = NoOp
  /\ aggIn = NoAgg
  /\ aggOut = NoResult
  /\ colorIn = NoColorIn
  /\ colorOut = NoColorOut
  /\ lastCmd = NoCmd
  /\ cmds = 0
  /\ InitHooks
  /\ fractionalHours \in BOOLEAN
  /\ isRangeMode \in BOOLEAN
  /\ isPlaying \in BOOLEAN
  /\ currentTime \in PlaybackInstants
  /\ timeRange \in PlaybackRanges

NextPlayback ==
  \/ PlaybackTick
  \/ SliderPlaybackTick
  \/ HandlePlay
  \/ HandlePause

\* setInterval keeps firing while the effect is installed
SpecPlayback ==
  /\ InitPlayback
  /\ [][NextPlayback]_vars
  /\ WF_vars(PlaybackTick \/ SliderPlaybackTick)

\* what a tick did: an accepted one moved the instant (instant mode) or the
\* range's start (range mode) by one hour, stayed within the horizon and
\* left playback running; a rejected one found the step passing the horizon's
\* end, moved nothing and stopped playback
TickOutcome ==
  lastCmd.op \in {"playbackTick", "sliderPlaybackTick"}
  => /\ lastCmd.playing
     /\ IF lastCmd.result
        THEN /\ isPlaying
             /\ IF lastCmd.mode
                THEN /\ timeRange.start = lastCmd.range.start + MsPerHour
                     /\ timeRange.end <= timelineEnd
                     /\ currentTime = lastCmd.time
                ELSE /\ currentTime = lastCmd.time + MsPerHour
                     /\ currentTime <= timelineEnd
                     /\ timeRange = lastCmd.range
        ELSE /\ ~isPlaying
             /\ currentTime = lastCmd.time
             /\ timeRange = lastCmd.range
             /\ StepWouldPassEnd

\* C20: while playing, each tick applies stepForward(1); playback becomes
\* inactive at the first tick whose step the forward horizon rejects; no
\* tick moves the window while playback is inactive; and from any state with
\* playback active and ticks continuing, playback eventually becomes inactive.
C20_PlaybackStopsAtHorizon ==
  /\ []TickOutcome
  /\ [][~isPlaying => (currentTime' = currentTime /\ timeRange' = timeRange)]_vars
  /\ (isPlaying ~> ~isPlaying)

\* in instant mode a tick was rejected at the horizon's end, reached by an
\* earlier tick, and playback is inactive
C20_Witness ==
  /\ lastCmd.op \in {"playbackTick", "sliderPlaybackTick"}
  /\ ~lastCmd.result
  /\ ~lastCmd.mode
  /\ lastCmd.playing
  /\ ~isPlaying
  /\ currentTime = timelineEnd

----------------------------------------------------------------------------
(* Refreshes while the regions are edited: the hook's refreshAllPolygonData *)
(* and refreshSinglePolygon, the popup's refreshData                        *)
(* (src/unnamed/part_005, PolygonComponent), the sidebar's data source      *)
(* selection and the deletion of a region, checked under SpecRefresh        *)

\* the edits explored: the region deleted, and the data source given to a
\* region (updatePolygon stores any identifier)
DeletableIds == {"p2"}
SourceChanges == {<<"p1", "wind">>}

\* PolygonComponent's refreshData for the polygon it renders
RefreshData(polygonId) ==
  /\ Len(calls) < MaxCalls
  /\ \E i \in 1..Len(polygons) :
       /\ polygons[i].id = polygonId
       /\ \E rnd \in [{1} -> 0..(RandGrain - 1)] :
            StartCall("manual", <<AtBoundsCenter(polygons[i])>>, rnd)
  /\ lastOp' = NoOp
  /\ UNCHANGED <<extraVars, hookVars, now, currentTime, timeRange, isRangeMode,
                 dataSources, winGen, aggIn, aggOut>>

\* handleDelete / handleDeletePolygon: deletePolygon(id)
DeletePolygon(polygonId) ==
  /\ \E i \in 1..Len(polygons) : polygons[i].id = polygonId
  /\ polygons' = deletePolygon(polygons, polygonId)
  /\ lastOp' = NoOp
  /\ UNCHANGED <<extraVars, hookVars, now, currentTime, timeRange, isRangeMode,
                 dataSources, weatherDataCache, calls, winGen, written, aggIn,
                 aggOut>>

\* handleDataSourceChange(polygonId, dataSourceId)
HandleDataSourceChange(polygonId, dataSourceId) ==
  /\ \E i \in 1..Len(polygons) :
       polygons[i].id = polygonId /\ polygons[i].dataSource # dataSourceId
  /\ polygons' = updatePolygonDataSource(polygons, polygonId, dataSourceId)
  /\ lastOp' = NoOp
  /\ UNCHANGED <<extraVars, hookVars, now, currentTime, timeRange, isRangeMode,
                 dataSources, weatherDataCache, calls, winGen, written, aggIn,
                 aggOut>>

NextRefresh ==
  \/ RefreshAll
  \/ \E id \in PolygonIds : RefreshOne(id)
  \/ \E id \in PolygonIds : RefreshData(id)
  \/ \E c \in 1..MaxCalls : \E i \in 1..Len(InitialPolygons) : FetchResolve(c, i)
  \/ \E c \in 1..MaxCalls : \E i \in 1..Len(InitialPolygons) : FetchReject(c, i)
  \/ \E id \in DeletableIds : DeletePolygon(id)
  \/ \E change \in SourceChanges : HandleDataSourceChange(change[1], change[2])

SpecRefresh == Init /\ [][NextRefresh]_vars

\* call c finishes in this step: its results are written
CallCompletes(c) ==
  /\ c \in 1..Len(calls')
  /\ calls'[c].pc = "done"
  /\ c > Len(calls) \/ calls[c].pc = "running"

\* the identifiers of the regions call c was started for
RegionsOf(call) == {call.snapshot[k].id : k \in 1..Len(call.snapshot)}

\* task i of the call took the synthetic fallback
FellBack(call, i) == call.tasks[i].synthetic

\* C22: when a refreshAll call completes, every region that was in the
\* call's region set and still exists has a non-null value and a color,
\* whichever of the regions' fetches failed or fell back.
C22_EveryRegionWritten ==
  [][\A c \in 1..MaxCalls :
       (CallCompletes(c) /\ calls'[c].kind = "all")
       => \A i \in 1..Len(polygons') :
            polygons'[i].id \in RegionsOf(calls'[c])
            => ~polygons'[i].data.isNull /\ polygons'[i].color # ""]_vars

\* a refreshAll call is done in which the first region's request failed, the
\* third region's was answered, and both carry a value and a color
C22_Witness ==
  \E c \in CallIds :
    /\ calls[c].kind = "all"
    /\ calls[c].pc = "done"
    /\ Len(calls[c].tasks) = 3
    /\ calls[c].tasks[1].outcome = "netfail"
    /\ calls[c].tasks[3].outcome = "fetched"
    /\ ~FellBack(calls[c], 3)
    /\ \A i \in 1..Len(polygons) :
         polygons[i].id \in {"p1", "p3"}
         => ~polygons[i].data.isNull /\ polygons[i].color # ""

\* C23: refreshAll and refreshOne change only a region's derived fields
\* (value, color, error, lastUpdated): identifier, vertex list and metric
\* assignment, the number and order of the regions, and every region not
\* being refreshed are the same after the call as before.
C23_OnlyDerivedFieldsChange ==
  [][\A c \in 1..MaxCalls :
       (CallCompletes(c) /\ calls'[c].kind \in {"all", "one"})
       => /\ Len(polygons') = Len(polygons)
          /\ \A i \in 1..Len(polygons) :
               /\ polygons'[i].id = polygons[i].id
               /\ polygons'[i].coordinates = polygons[i].coordinates
               /\ polygons'[i].dataSource = polygons[i].dataSource
               /\ polygons[i].id \notin RegionsOf(calls'[c])
                    => polygons'[i] = polygons[i]]_vars

\* a refreshAll call is done that was started while the first region had
\* another data source than now and the second region still existed: the
\* first region has a value and its present data source, the second region
\* is gone
C23_Witness ==
  \E c \in CallIds :
    /\ calls[c].kind = "all"
    /\ calls[c].pc = "done"
    /\ written["p1"].call = c
    /\ calls[c].snapshot[1].dataSource = "temperature"
    /\ Len(calls[c].snapshot) = 3
    /\ Len(polygons) = 2
    /\ polygons[1].id = "p1"
    /\ polygons[1].dataSource = "wind"
    /\ ~polygons[1].data.isNull

\* C25: a manual single-region refresh does for its region what refreshAll
\* does: it uses the cache key of the region's centroid and writes value,
\* color, lastUpdated and error, and it is not delayed by the debounce.
C25_ManualRefreshLikeRefreshAll ==
  \A c \in CallIds :
    (calls[c].kind = "manual" /\ calls[c].pc = "done")
    => \A i \in 1..Len(polygons) :
         polygons[i].id = calls[c].tasks[1].polygonId
         => /\ calls[c].tasks[1].key[1] = cacheKey(polygons[i])[1]
            /\ calls[c].tasks[1].key[2] = cacheKey(polygons[i])[2]
            /\ ~polygons[i].data.isNull
            /\ polygons[i].color # ""
            /\ ~polygons[i].lastUpdated.isNull

\* C26: refreshing a region whose metric identifier is not in the metric set
\* surfaces a configuration error: it does not end with a value written to
\* the region next to a null error.
C26_UnknownMetricSurfaces ==
  \A c \in CallIds :
    calls[c].pc = "done"
    => \A i \in 1..Len(calls[c].tasks) :
         ~HasDataSource(calls[c].tasks[i].dataSource)
         => calls[c].tasks[i].error # NoError

\* the identifiers of the regions in a list
IdsOf(polys) == {polys[i].id : i \in 1..Len(polys)}

\* C31: the value and color recorded on a region belong to the metric the
\* region is assigned at the time of the write: when the region's metric was
\* reassigned while the refresh was in flight, the result computed for the
\* old metric is not written onto the region.
C31_StaleMetricResultNotWritten ==
  [][\A c \in 1..MaxCalls :
       (CallCompletes(c) /\ calls'[c].kind \in {"all", "one"})
       => \A i \in 1..Len(polygons) : \A k \in 1..Len(calls'[c].tasks) :
            ( /\ calls'[c].tasks[k].polygonId = polygons[i].id
              /\ calls'[c].tasks[k].dataSource # polygons[i].dataSource )
            => /\ polygons'[i].data = polygons[i].data
               /\ polygons'[i].color = polygons[i].color]_vars

----------------------------------------------------------------------------
(* A single-region refresh repeated on a filled cache, checked under       *)
(* SpecRepeat                                                              *)

\* Math.random() where a refresh is repeated: rnd / RandGrain, and with
\* rnd = RandGrain a draw so close to 1 that the value rounds to the range's
\* maximum
RepeatDraws == 0..RandGrain

\* the regions refreshed: both have the cache key of the first
RepeatIds == {"p1", "p2"}

\* an earlier fetch for the first region's key has stored its payload, and
\* the timeline stands at one of the instants
InitRepeat ==
  /\ now = 0
  /\ dataSources = InitialDataSources
  /\ \E data \in Storable(cacheKey(InitialPolygons[1])) :
       weatherDataCache = cacheWeatherData(<<>>, cacheKey(InitialPolygons[1]), data)
  /\ calls = <<>>
  /\ winGen = 0
  /\ written = [id \in PolygonIds |->
                  [call |-> 0, synthetic |-> FALSE, window |-> NoWindow,
                   outcome |-> "none"]]
  /\ InitExtra
  /\ polygons = InitialPolygons
  /\ lastOp = NoOp
  /\ aggIn = NoAgg
  /\ aggOut = NoResult
  /\ currentTime \in TimeChoices
  /\ timeRange = [start |-> now - 24 * MsPerHour, end |-> now + 24 * MsPerHour]
  /\ isRangeMode = FALSE

NextRepeat ==
  \/ \E id \in RepeatIds : RefreshOneDrawing(id, RepeatDraws)
  \/ \E time \in TimeChoices : SetCurrentTime(time)
  \/ \E d \in {1, MsPerHour} : Tick(d)

SpecRepeat == InitRepeat /\ [][NextRepeat]_vars

\* C24: two refreshOne calls for the same region under an unchanged
\* TimeWindow that are both served from the cache leave the same value (and
\* with it the same color) on the region, for every cached series and window.
C24_RepeatedCachedRefreshAgrees ==
  \A c1, c2 \in CallIds :
    (/\ c1 < c2
     /\ calls[c1].kind = "one"
     /\ calls[c2].kind = "one"
     /\ calls[c1].tasks[1].polygonId = calls[c2].tasks[1].polygonId
     /\ calls[c1].tasks[1].outcome = "hit"
     /\ calls[c2].tasks[1].outcome = "hit"
     /\ calls[c1].win0 = calls[c2].win0
     /\ calls[c1].gen0 = calls[c2].gen0)
    => /\ calls[c1].tasks[1].value = calls[c2].tasks[1].value
       /\ getColorForValue(calls[c1].tasks[1].dataSource,
                           Num(calls[c1].tasks[1].value))
            = getColorForValue(calls[c2].tasks[1].dataSource,
                               Num(calls[c2].tasks[1].value))

----------------------------------------------------------------------------
(* The statistics of usePolygons, checked under SpecStats *)

\* getPolygonStats(): byDataSource is the object's keys with their counts
getPolygonStats ==
  [state |-> "done",
   total |-> Len(polygons),
   withData |-> Cardinality({i \in 1..Len(polygons) : ~polygons[i].data.isNull}),
   withErrors |-> Cardinality({i \in 1..Len(polygons) :
                                 polygons[i].error # NoError}),
   byDataSource |->
     [ds \in {polygons[i].dataSource : i \in 1..Len(polygons)} |->
        Cardinality({i \in 1..Len(polygons) : polygons[i].dataSource = ds})]]

\* getPolygonStats() is called
GetPolygonStats ==
  /\ statsOut' = getPolygonStats
  /\ UNCHANGED <<extraVars, now, currentTime, timeRange, isRangeMode, polygons,
                 dataSources, weatherDataCache, calls, winGen, written, lastOp,
                 aggIn, aggOut, timers, debounceTimer, timerCount, lastChange,
                 startsSinceChange, validation, lastEdit, retry,
                 batch>>

NextStats ==
  \/ RefreshAll
  \/ \E c \in 1..MaxCalls : \E i \in 1..Len(InitialPolygons) : FetchResolve(c, i)
  \/ \E c \in 1..MaxCalls : \E i \in 1..Len(InitialPolygons) : FetchReject(c, i)
  \/ \E id \in DeletableIds : DeletePolygon(id)
  \/ \E change \in SourceChanges : HandleDataSourceChange(change[1], change[2])
  \/ GetPolygonStats

SpecStats == Init /\ [][NextStats]_vars

\* the region carries an error, or the value on it is a synthetic one
InErrorOrFallback(polygon) ==
  \/ polygon.error # NoError
  \/ ~polygon.data.isNull /\ written[polygon.id].synthetic

RECURSIVE SumCounts(_)
SumCounts(f) ==
  IF DOMAIN f = {} THEN 0
  ELSE LET k == CHOOSE x \in DOMAIN f : TRUE
       IN f[k] + SumCounts([x \in (DOMAIN f) \ {k} |-> f[x]])

\* C28: stats(regions) changes no state and returns total = number of
\* regions, withData = number of regions with a non-null value, withErrors =
\* number of regions in error or fallback state, and a per-metric breakdown
\* whose counts sum to total.
C28_StatsCountRegions ==
  [][statsOut' # statsOut
     => /\ UNCHANGED <<now, currentTime, timeRange, isRangeMode, polygons,
                       dataSources, weatherDataCache, calls>>
        /\ statsOut'.total = Len(polygons)
        /\ statsOut'.withData
             = Cardinality({i \in 1..Len(polygons) : ~polygons[i].data.isNull})
        /\ statsOut'.withErrors
             = Cardinality({i \in 1..Len(polygons) :
                              InErrorOrFallback(polygons[i])})
        /\ SumCounts(statsOut'.byDataSource) = statsOut'.total]_vars

----------------------------------------------------------------------------
(* The debounce effect of usePolygons (src/unnamed/part_001, lines 42-48), *)
(* checked under SpecDebounce.  The effect depends on currentTime,         *)
(* timeRange, isRangeMode and refreshAllPolygonData, and the latter is     *)
(* made anew whenever the store's polygons array is: every step that       *)
(* replaces one of them runs the cleanup of the previous effect            *)
(* (clearTimeout) and then the effect (setTimeout).  A timer fires when it *)
(* is due.                                                                 *)

MaxChanges == 1
MaxElapsedMs == 1000

DebounceMs == 500

\* the grain of the passing of time, half the debounce delay
ElapseStep == 250

\* the cleanup of the previous effect and the effect itself: the timer the
\* cleanup holds is cleared among the pending ones, a new one is set
RunEffect(pending) ==
  /\ timers' = {t \in pending : t.id # debounceTimer}
                 \cup {[id |-> timerCount + 1, due |-> now + DebounceMs]}
  /\ debounceTimer' = timerCount + 1
  /\ timerCount' = timerCount + 1

\* the hook has been mounted: its effect has run once
InitDebounce ==
  /\ InitStore
  /\ InitTimeline
  /\ polygons = InitialPolygons
  /\ lastOp = NoOp
  /\ aggIn = NoAgg
  /\ aggOut = NoResult
  /\ colorIn = NoColorIn
  /\ colorOut = NoColorOut
  /\ isPlaying = FALSE
  /\ fractionalHours = FALSE
  /\ lastCmd = NoCmd
  /\ cmds = 0
  /\ timers = {[id |-> 1, due |-> DebounceMs]}
  /\ debounceTimer = 1
  /\ timerCount = 1
  /\ lastChange = 0
  /\ startsSinceChange = 0
  /\ statsOut = NoStats
  /\ validation = NoValidation
  /\ lastEdit = NoEdit
  /\ retry = NoRetry
  /\ batch = NoBatch

\* the user moves the timeline: setCurrentTime(time) with a new Date
ChangeCurrentTime(time) ==
  /\ winGen < MaxChanges
  /\ currentTime' = time
  /\ winGen' = winGen + 1
  /\ RunEffect(timers)
  /\ lastChange' = now
  /\ startsSinceChange' = 0
  /\ UNCHANGED <<extraVars, now, timeRange, isRangeMode, polygons, dataSources,
                 weatherDataCache, calls, written, lastOp, aggIn, aggOut,
                 statsOut, validation, lastEdit, retry,
                 batch>>

\* the user deletes a region: deletePolygon(id)
ChangeRegions(polygonId) ==
  /\ \E i \in 1..Len(polygons) : polygons[i].id = polygonId
  /\ polygons' = deletePolygon(polygons, polygonId)
  /\ RunEffect(timers)
  /\ lastChange' = now
  /\ startsSinceChange' = 0
  /\ UNCHANGED <<extraVars, now, currentTime, timeRange, isRangeMode,
                 dataSources, weatherDataCache, calls, winGen, written, lastOp,
                 aggIn, aggOut, statsOut, validation, lastEdit, retry,
                 batch>>

\* a pending timer is due: refreshAllPolygonData() of the effect's closure;
\* when every region is served from the cache the results are written in
\* the same turn, and the new polygons array runs the effect again
DebounceFires ==
  \E t \in timers :
    /\ t.due <= now
    /\ startsSinceChange' = startsSinceChange + 1
    /\ IF Len(polygons) = 0
       THEN /\ timers' = timers \ {t}
            /\ UNCHANGED <<polygons, weatherDataCache, calls, written,
                           debounceTimer, timerCount>>
       ELSE /\ Len(calls) < MaxCalls
            /\ \E rnd \in [1..Len(polygons) -> 0..(RandGrain - 1)] :
                 StartCall("all", polygons, rnd)
            /\ IF calls'[Len(calls')].pc = "done"
               THEN RunEffect(timers \ {t})
               ELSE /\ timers' = timers \ {t}
                    /\ UNCHANGED <<debounceTimer, timerCount>>
    /\ UNCHANGED <<extraVars, now, currentTime, timeRange, isRangeMode,
                   dataSources, winGen, lastOp, aggIn, aggOut, lastChange,
                   statsOut, validation, lastEdit, retry,
                 batch>>

\* a fetch of call c has returned; when it was the call's last one the
\* results are written, and the new polygons array runs the effect again
FetchReturns(c, i, res) ==
  /\ CompleteTask(c, i, res)
  /\ IF calls'[c].pc = "done"
     THEN RunEffect(timers)
     ELSE UNCHANGED <<timers, debounceTimer, timerCount>>
  /\ UNCHANGED <<extraVars, now, currentTime, timeRange, isRangeMode,
                 dataSources, winGen, lastOp, aggIn, aggOut, lastChange,
                 startsSinceChange, statsOut, validation, lastEdit, retry,
                 batch>>

\* axios.get resolves for task i of call c
DebouncedResolve(c, i) ==
  /\ c \in 1..Len(calls)
  /\ i \in 1..Len(calls[c].tasks)
  /\ calls[c].tasks[i].pc = "fetching"
  /\ \E payload \in ProviderPayloads(calls[c].tasks[i].url) :
       \E rnd \in 0..(RandGrain - 1) :
         FetchReturns(c, i, fetchWeatherDataResolved(weatherDataCache,
                                                     calls[c].tasks[i], payload, rnd))

\* axios.get rejects for task i of call c
DebouncedReject(c, i) ==
  /\ c \in 1..Len(calls)
  /\ i \in 1..Len(calls[c].tasks)
  /\ calls[c].tasks[i].pc = "fetching"
  /\ \E rnd \in 0..(RandGrain - 1) :
       FetchReturns(c, i, fetchWeatherDataRejected(weatherDataCache,
                                                   calls[c].tasks[i], rnd))

\* time passes, up to the moment the next timer is due
Elapse(d) ==
  /\ now + d <= MaxElapsedMs
  /\ \A t \in timers : now + d <= t.due
  /\ now' = now + d
  /\ UNCHANGED <<extraVars, hookVars, currentTime, timeRange, isRangeMode,
                 polygons, dataSources, weatherDataCache, calls, winGen, written,
                 lastOp, aggIn, aggOut>>

NextDebounce ==
  \/ \E time \in TimeChoices : ChangeCurrentTime(time)
  \/ \E id \in DeletableIds : ChangeRegions(id)
  \/ DebounceFires
  \/ \E c \in 1..MaxCalls : \E i \in 1..Len(InitialPolygons) : DebouncedResolve(c, i)
  \/ \E c \in 1..MaxCalls : \E i \in 1..Len(InitialPolygons) : DebouncedReject(c, i)
  \/ \E d \in {ElapseStep} : Elapse(d)

SpecDebounce == InitDebounce /\ [][NextDebounce]_vars

\* C21: a change of the TimeWindow or region set starts refreshAll only
\* after 500 ms without a further change: every change cancels the pending
\* timer and schedules a new one, at most one timer is pending at any time,
\* and a burst of changes starts exactly one refreshAll, 500 ms after the
\* last change.
C21_OneRefreshPerBurst ==
  [][/\ Cardinality(timers') <= 1
     /\ lastChange' # lastChange
          => \A t \in timers' : t.due = lastChange' + DebounceMs
     /\ startsSinceChange' > startsSinceChange
          => /\ startsSinceChange = 0
             /\ now = lastChange + DebounceMs]_vars

\* C30: after a user change, with no further user change, only finitely
\* many refreshAll cycles run: the write of a cycle's results onto the
\* regions does not itself schedule another refreshAll.
C30_WriteSchedulesNothing ==
  [][(\E c \in 1..MaxCalls : CallCompletes(c)) => timers' \subseteq timers]_vars

----------------------------------------------------------------------------
(* The store's rule-list edits (src/src/store/dashboardStore.js, lines     *)
(* 120-150), checked under SpecRuleEdits.  ruleIndex is the zero-based     *)
(* index of the code: the rule at position k of a list has index k - 1.    *)

MaxRuleEdits == 2

\* { ...rule, ...updates }: the fields of updates replace the rule's
Merge(rule, updates) ==
  [f \in DOMAIN rule |-> IF f \in DOMAIN updates THEN updates[f] ELSE rule[f]]

\* updateColorRule(sourceId, ruleIndex, updates)
updateColorRule(sourceId, ruleIndex, updates) ==
  [i \in 1..Len(dataSources) |->
     IF dataSources[i].id = sourceId
     THEN LET rules == dataSources[i].colorRules
          IN [dataSources[i] EXCEPT !.colorRules =
                [k \in 1..Len(rules) |->
                   IF k - 1 = ruleIndex THEN Merge(rules[k], updates)
                   ELSE rules[k]]]
     ELSE dataSources[i]]

\* colorRules.filter((_, index) => index !== ruleIndex)
WithoutIndex(rules, ruleIndex) ==
  IF ruleIndex \in 0..(Len(rules) - 1)
  THEN [k \in 1..(Len(rules) - 1) |->
          IF k - 1 < ruleIndex THEN rules[k] ELSE rules[k + 1]]
  ELSE rules

\* faulty variant, for comparison: the rule at ruleIndex and every rule after
\* it are removed
deleteColorRuleAndAfter(sourceId, ruleIndex) ==
  [i \in 1..Len(dataSources) |->
     IF dataSources[i].id = sourceId
     THEN [dataSources[i] EXCEPT !.colorRules =
             IF ruleIndex \in 0..(Len(@) - 1) THEN SubSeq(@, 1, ruleIndex)
             ELSE @]
     ELSE dataSources[i]]

\* deleteColorRule(sourceId, ruleIndex)
deleteColorRule(sourceId, ruleIndex) ==
  [i \in 1..Len(dataSources) |->
     IF dataSources[i].id = sourceId
     THEN [dataSources[i] EXCEPT !.colorRules = WithoutIndex(@, ruleIndex)]
     ELSE dataSources[i]]

\* the edits explored: the metric addressed (one of them unknown), the rules
\* added, the fields changed, and the indexes addressed (the last ones past
\* the end of every list)
EditedSourceIds == {"temperature", "precipitation", "wind"}
AddedRules == {Rule1(">=", 200, "#722ed1"), Rule2(">", 0, "<=", 150, "#eb2f96")}
RuleUpdates == {[color |-> "#13c2c2"], [operator |-> ">", value |-> 100]}
RuleIndexes == 0..5

\* one edit of the rule lists
RuleEdit(op, sourceId, ruleIndex, arg, sources) ==
  /\ lastEdit.n < MaxRuleEdits
  /\ dataSources' = sources
  /\ lastEdit' = [n |-> lastEdit.n + 1, op |-> op, sourceId |-> sourceId,
                  ruleIndex |-> ruleIndex, arg |-> arg]
  /\ UNCHANGED <<extraVars, now, currentTime, timeRange, isRangeMode, polygons,
                 weatherDataCache, calls, winGen, written, lastOp, aggIn, aggOut,
                 timers, debounceTimer, timerCount, lastChange,
                 startsSinceChange, statsOut, validation, retry, batch>>

\* addColorRule(sourceId, rule)
AddColorRule(sourceId, rule) ==
  RuleEdit("add", sourceId, -1, rule, addColorRule(sourceId, rule))

\* updateColorRule(sourceId, ruleIndex, updates)
UpdateColorRule(sourceId, ruleIndex, updates) ==
  RuleEdit("update", sourceId, ruleIndex, updates,
           updateColorRule(sourceId, ruleIndex, updates))

\* deleteColorRule(sourceId, ruleIndex)
DeleteColorRule(sourceId, ruleIndex) ==
  RuleEdit("delete", sourceId, ruleIndex, <<>>,
           deleteColorRule(sourceId, ruleIndex))

NextRuleEdits ==
  \/ \E id \in EditedSourceIds : \E rule \in AddedRules : AddColorRule(id, rule)
  \/ \E id \in EditedSourceIds : \E k \in RuleIndexes : \E updates \in RuleUpdates :
       UpdateColorRule(id, k, updates)
  \/ \E id \in EditedSourceIds : \E k \in RuleIndexes : DeleteColorRule(id, k)

SpecRuleEdits == Init /\ [][NextRuleEdits]_vars

\* the rule list of metric id in a list of data sources
RulesOf(sources, id) ==
  LET found == {i \in 1..Len(sources) : sources[i].id = id}
  IN IF found = {} THEN <<>> ELSE sources[CHOOSE i \in found : TRUE].colorRules

\* the rules of a list without the one at position k, in order
SkipPosition(rules, k) ==
  SubSeq(rules, 1, k - 1) \o SubSeq(rules, k + 1, Len(rules))

\* C37: rule-list edits preserve the configured order: addColorRule appends
\* the rule after all existing ones; updateColorRule(i) and deleteColorRule(i)
\* change or remove only the rule at index i of the addressed metric and keep
\* the order of the others; the rule lists of every other metric and all
\* regions are unchanged; an edit addressed to an unknown metric changes
\* nothing.
C37_EditsPreserveOrder ==
  [][lastEdit'.n > lastEdit.n
     => LET e == lastEdit'
            before == RulesOf(dataSources, e.sourceId)
            after == RulesOf(dataSources', e.sourceId)
            k == e.ruleIndex + 1
        IN /\ polygons' = polygons
           /\ Len(dataSources') = Len(dataSources)
           /\ \A i \in 1..Len(dataSources) :
                /\ dataSources'[i].id = dataSources[i].id
                /\ dataSources[i].id # e.sourceId
                     => dataSources'[i] = dataSources[i]
           /\ ~HasDataSource(e.sourceId) => dataSources' = dataSources
           /\ (HasDataSource(e.sourceId) /\ e.op = "add")
                => /\ Len(after) = Len(before) + 1
                   /\ SubSeq(after, 1, Len(before)) = before
                   /\ after[Len(after)] = e.arg
           /\ (HasDataSource(e.sourceId) /\ e.op = "update")
                => /\ Len(after) = Len(before)
                   /\ \A j \in 1..Len(before) : j # k => after[j] = before[j]
                   /\ k \in 1..Len(before)
                        => \A f \in DOMAIN before[k] :
                             after[k][f] = IF f \in DOMAIN e.arg THEN e.arg[f]
                                           ELSE before[k][f]
           /\ (HasDataSource(e.sourceId) /\ e.op = "delete")
                => IF k \in 1..Len(before)
                   THEN after = SkipPosition(before, k)
                   ELSE after = before]_vars

\* two edits were made: the first rule of a metric's list was removed after
\* a rule had been appended to it, and the list is the rest of the built-in
\* list, in order, followed by the added rule
C37_Witness ==
  /\ lastEdit.n = 2
  /\ lastEdit.op = "delete"
  /\ lastEdit.ruleIndex = 0
  /\ lastEdit.sourceId = "temperature"
  /\ \E rule \in AddedRules :
       RulesOf(dataSources, "temperature")
         = Tail(InitialDataSources[1].colorRules) \o <<rule>>

----------------------------------------------------------------------------
(* Rule edits between refreshes, checked under SpecRecolor: the regions'   *)
(* stored colors are written by refreshAllPolygonData only                 *)
(* (src/unnamed/part_001, lines 24-34), and the sidebar shows the stored   *)
(* color (src/src/components/Sidebar/Sidebar.tsx, line 272)                *)

\* the edits explored next to the refreshes: the second rule of the
\* temperature list, which the provider's values match, is recolored or
\* removed, or a rule is appended
RecolorIndexes == {1}
RecolorUpdates == {[color |-> "#13c2c2"]}
RecolorRules == {Rule1(">=", 200, "#722ed1")}

NextRecolor ==
  \/ RefreshAll
  \/ \E c \in 1..MaxCalls : \E i \in 1..Len(InitialPolygons) : FetchResolve(c, i)
  \/ \E c \in 1..MaxCalls : \E i \in 1..Len(InitialPolygons) : FetchReject(c, i)
  \/ \E rule \in RecolorRules : AddColorRule("temperature", rule)
  \/ \E k \in RecolorIndexes : \E updates \in RecolorUpdates :
       UpdateColorRule("temperature", k, updates)
  \/ \E k \in RecolorIndexes : DeleteColorRule("temperature", k)

SpecRecolor == Init /\ [][NextRecolor]_vars

\* C33: in every state reached after a refresh has completed, each region's
\* stored color is colorFor applied to the current rule list of the region's
\* metric and the region's stored value, also after addColorRule,
\* updateColorRule or deleteColorRule on that metric.
C33_StoredColorFollowsRules ==
  (\E c \in CallIds : calls[c].pc = "done")
  => \A i \in 1..Len(polygons) :
       polygons[i].color = getColorForValue(polygons[i].dataSource, polygons[i].data)

----------------------------------------------------------------------------
(* The boundary tests of useTimeline (src/unnamed/part_000, lines 338-346) *)
(* next to the timeline commands, checked under SpecCanStep                *)

canMoveForward == isBefore(getTimeWindow.end, timelineEnd)

canMoveBackward == isAfter(getTimeWindow.start, timelineStart)

\* canMoveForward() is called: it reads the store and returns
CanMoveForward ==
  UserCommand("canMoveForward", 0, 0,
              Outcome(canMoveForward, currentTime, timeRange, isPlaying))

\* canMoveBackward() is called: it reads the store and returns
CanMoveBackward ==
  UserCommand("canMoveBackward", 0, 0,
              Outcome(canMoveBackward, currentTime, timeRange, isPlaying))

\* further targets of jumpToTime: half an hour inside either end of the
\* timeline
InnerTargets ==
  {timelineStart + 30 * (MsPerHour \div 60), timelineEnd - 30 * (MsPerHour \div 60)}

NextCanStep ==
  \/ NextControls
  \/ \E targetTime \in InnerTargets : JumpToTime(targetTime)
  \/ CanMoveForward
  \/ CanMoveBackward

SpecCanStep == InitControls /\ [][NextCanStep]_vars

\* C34: canStepForward and canStepBackward change no state, and
\* canStepForward() is true exactly when stepForward(1) would be accepted,
\* canStepBackward() exactly when stepBackward(1) would be accepted, in
\* instant mode and in range mode.
C34_CanStepIffStepAccepted ==
  /\ lastCmd.op \in {"canMoveForward", "canMoveBackward"}
       => /\ currentTime = lastCmd.time
          /\ timeRange = lastCmd.range
          /\ isPlaying = lastCmd.playing
          /\ isRangeMode = lastCmd.mode
  /\ lastCmd.op = "canMoveForward"
       => lastCmd.result = moveTimeForward(1).result
  /\ lastCmd.op = "canMoveBackward"
       => lastCmd.result = moveTimeBackward(1).result

----------------------------------------------------------------------------
(* retryWithBackoff (src/unnamed/part_002, lines 245-265), checked under   *)
(* SpecRetry.  fn is any function returning a promise: each of its calls   *)
(* resolves with a value or rejects with an error.                         *)

MaxRetryArg == 3

DefaultBaseDelay == 1000

\* Math.pow(2, n) for n >= 0
RECURSIVE MathPow2(_)
MathPow2(n) == IF n <= 0 THEN 1 ELSE 2 * MathPow2(n - 1)

\* faulty variant, for comparison: the first delay is already doubled
backoffDelayDoubledFirst(baseDelay, attempt) == baseDelay * MathPow2(attempt)

\* baseDelay * Math.pow(2, attempt - 1)
backoffDelay(baseDelay, attempt) == baseDelay * MathPow2(attempt - 1)

\* the arguments and the outcomes of fn explored
BaseDelays == {100, DefaultBaseDelay}
FnValues == {"v1", "v2"}
FnErrors == {"e1", "e2"}

\* what retryWithBackoff throws when no call of fn was made: lastError is
\* undefined
Undefined == "undefined"

RetryFrame ==
  UNCHANGED <<extraVars, currentTime, timeRange, isRangeMode, polygons,
              dataSources, weatherDataCache, calls, winGen, written, lastOp,
              aggIn, aggOut, timers, debounceTimer, timerCount, lastChange,
              startsSinceChange, statsOut, validation, lastEdit, batch>>

\* retryWithBackoff(fn, maxRetries, baseDelay) is called: the loop is entered
\* with attempt = 1 and fn is called, or is not entered at all
RetryWithBackoff(maxRetries, baseDelay) ==
  /\ retry.pc = "idle"
  /\ retry' = IF 1 <= maxRetries
              THEN [retry EXCEPT !.pc = "calling", !.maxRetries = maxRetries,
                                 !.baseDelay = baseDelay, !.attempt = 1,
                                 !.calledAt = <<now>>]
              ELSE [retry EXCEPT !.pc = "thrown", !.maxRetries = maxRetries,
                                 !.baseDelay = baseDelay, !.attempt = 1,
                                 !.thrown = Undefined]
  /\ UNCHANGED now
  /\ RetryFrame

\* the call of fn resolves: return await fn()
FnResolves(value) ==
  /\ retry.pc = "calling"
  /\ retry' = [retry EXCEPT !.pc = "returned", !.result = value]
  /\ UNCHANGED now
  /\ RetryFrame

\* the call of fn rejects: the catch block keeps the error and either leaves
\* the loop, which throws it, or sets the timer of the backoff
FnRejects(error) ==
  /\ retry.pc = "calling"
  /\ retry' = IF retry.attempt = retry.maxRetries
              THEN [retry EXCEPT !.pc = "thrown", !.thrown = error,
                                 !.errors = Append(@, error),
                                 !.failedAt = Append(@, now)]
              ELSE [retry EXCEPT !.pc = "waiting",
                                 !.errors = Append(@, error),
                                 !.failedAt = Append(@, now),
                                 !.delays = Append(@, backoffDelay(retry.baseDelay,
                                                                    retry.attempt))]
  /\ UNCHANGED now
  /\ RetryFrame

\* the timer of the backoff fires after its delay: the next attempt calls fn
BackoffEnds ==
  /\ retry.pc = "waiting"
  /\ now' = now + retry.delays[Len(retry.delays)]
  /\ retry' = [retry EXCEPT !.pc = "calling", !.attempt = @ + 1,
                            !.calledAt = Append(@, now')]
  /\ RetryFrame

NextRetry ==
  \/ \E maxRetries \in 0..MaxRetryArg : \E baseDelay \in BaseDelays :
       RetryWithBackoff(maxRetries, baseDelay)
  \/ \E value \in FnValues : FnResolves(value)
  \/ \E error \in FnErrors : FnRejects(error)
  \/ BackoffEnds

SpecRetry == Init /\ [][NextRetry]_vars

\* C35: retryWithBackoff(fn, maxRetries, baseDelay) calls fn at most
\* maxRetries times; it returns the result of the first successful call and
\* makes no further call after it; after the k-th failure with
\* k < maxRetries it waits baseDelay * 2^(k-1) before the next call; after
\* maxRetries failures it fails with the error of the last call, without
\* waiting after that last failure.
C35_RetryWithBackoff ==
  [][LET r == retry'
         calls_ == Len(r.calledAt)
         failures == Len(r.errors)
     IN /\ calls_ <= (IF r.maxRetries > 0 THEN r.maxRetries ELSE 0)
        /\ \A k \in 1..failures :
             k < calls_ => /\ k < r.maxRetries
                           /\ r.calledAt[k + 1]
                                = r.failedAt[k] + r.baseDelay * 2^(k - 1)
        /\ r.pc = "returned" => /\ calls_ = failures + 1
                                /\ r.result \in FnValues
        /\ r.pc = "waiting" => failures < r.maxRetries
        /\ r.pc = "thrown"
             => /\ failures = (IF r.maxRetries > 0 THEN r.maxRetries ELSE 0)
                /\ calls_ = failures
                /\ failures > 0 => r.thrown = r.errors[failures]
                /\ Len(r.delays) = (IF failures > 0 THEN failures - 1 ELSE 0)
                /\ failures > 0 => now' = r.failedAt[failures]
        /\ retry.pc \in {"returned", "thrown"} => retry' = retry]_vars

\* three calls were made with the default base delay: the first two failed,
\* the third one, 1000 ms and then 2000 ms later, succeeded and its value
\* was returned
C35_Witness ==
  /\ retry.pc = "returned"
  /\ retry.maxRetries = 3
  /\ retry.baseDelay = DefaultBaseDelay
  /\ Len(retry.errors) = 2
  /\ retry.calledAt = <<0, 1000, 3000>>
  /\ retry.result = "v2"

----------------------------------------------------------------------------
(* batchFetchWeatherData (src/unnamed/part_002, lines 81-120), checked     *)
(* under SpecBatch.  A location is a tag: "bad" stands for a location      *)
(* whose lat is not a number, for which fetchOpenMeteoData throws before   *)
(* it sends a request.  Positions in the location list are counted from 1. *)

MaxLocations == 3

DefaultMaxConcurrent == 5
BatchPauseMs == 100

Min(a, b) == IF a <= b THEN a ELSE b

\* faulty variant, for comparison: the slice holds one element more
sliceOneMore(n, begin, end) ==
  [k \in 1..(Min(end + 1, n) - begin) |-> begin + k]

\* locations.slice(begin, end) of a list of n locations, as the positions
\* of the elements taken
slice(n, begin, end) == [k \in 1..(Min(end, n) - begin) |-> begin + k]

\* the batches: for (let i = 0; i < locations.length; i += maxConcurrent)
RECURSIVE Batches(_, _, _)
Batches(n, maxConcurrent, i) ==
  IF i >= n THEN <<>>
  ELSE <<slice(n, i, i + maxConcurrent)>> \o Batches(n, maxConcurrent, i + maxConcurrent)

BatchesOf(bt) == Batches(Len(bt.locations), bt.maxConcurrent, 0)

\* the entries of the result list
BatchResult(position, location, data, error) ==
  [position |-> position, location |-> location, data |-> data, error |-> error]

\* the arguments and the outcomes explored
LocationTags == {"A", "B", "bad"}
ConcurrencyArgs == {1, 2, DefaultMaxConcurrent}
ResponseData == {"d1", "d2"}
FetchError == "Failed to fetch weather data"
TypeError == "lat.toFixed is not a function"

RECURSIVE SeqsUpTo(_, _)
SeqsUpTo(S, n) ==
  IF n = 0 THEN {<<>>}
  ELSE SeqsUpTo(S, n - 1)
         \cup {Append(q, x) : q \in {r \in SeqsUpTo(S, n - 1) : Len(r) = n - 1}, x \in S}

\* batch.map(async (location) => ...) of batch number b: a request goes out
\* for every location but the bad ones, whose results are there at once
StartBatch(bt, b) ==
  LET positions == BatchesOf(bt)[b]
      all == {positions[k] : k \in 1..Len(positions)}
      bad == {i \in all : bt.locations[i] = "bad"}
      flying == bt.inFlight \cup (all \ bad)
  IN [bt EXCEPT !.pc = "fetching", !.b = b,
                !.inFlight = flying,
                !.maxInFlight = IF Cardinality(flying) > @
                                THEN Cardinality(flying) ELSE @,
                !.settled = [i \in bad |->
                               BatchResult(i, bt.locations[i], "null", TypeError)]]

\* Promise.all(promises) resolves once no request of the batch is in flight:
\* the results are pushed in the order of the batch; with more than one
\* batch the 100 ms timer is set, with one batch the loop is over
AfterSettle(bt) ==
  IF bt.inFlight # {}
  THEN bt
  ELSE LET positions == BatchesOf(bt)[bt.b]
           pushed == bt.results \o [k \in 1..Len(positions) |-> bt.settled[positions[k]]]
       IN [bt EXCEPT !.results = pushed,
                     !.pc = IF Len(BatchesOf(bt)) > 1 THEN "pausing" ELSE "done"]

BatchFrame ==
  UNCHANGED <<extraVars, currentTime, timeRange, isRangeMode, polygons,
              dataSources, weatherDataCache, calls, winGen, written, lastOp,
              aggIn, aggOut, timers, debounceTimer, timerCount, lastChange,
              startsSinceChange, statsOut, validation, lastEdit, retry>>

\* batchFetchWeatherData(locations, { maxConcurrent }) is called
BatchFetchWeatherData(locations, maxConcurrent) ==
  /\ batch.pc = "idle"
  /\ LET bt == [batch EXCEPT !.locations = locations,
                             !.maxConcurrent = maxConcurrent]
     IN batch' = IF Len(locations) = 0
                 THEN [bt EXCEPT !.pc = "done"]
                 ELSE AfterSettle(StartBatch(bt, 1))
  /\ UNCHANGED now
  /\ BatchFrame

\* the request for the location at position i is answered
RequestResolves(i, data) ==
  /\ batch.pc = "fetching"
  /\ i \in batch.inFlight
  /\ batch' = AfterSettle(
       [batch EXCEPT !.inFlight = @ \ {i},
                     !.settled = [j \in (DOMAIN @) \cup {i} |->
                                    IF j = i
                                    THEN BatchResult(i, batch.locations[i], data, "null")
                                    ELSE @[j]]])
  /\ UNCHANGED now
  /\ BatchFrame

\* the request for the location at position i fails: fetchOpenMeteoData
\* throws and the catch of the batch makes a result of it
RequestRejects(i) ==
  /\ batch.pc = "fetching"
  /\ i \in batch.inFlight
  /\ batch' = AfterSettle(
       [batch EXCEPT !.inFlight = @ \ {i},
                     !.settled = [j \in (DOMAIN @) \cup {i} |->
                                    IF j = i
                                    THEN BatchResult(i, batch.locations[i], "null",
                                                     FetchError)
                                    ELSE @[j]]])
  /\ UNCHANGED now
  /\ BatchFrame

\* the 100 ms timer after a batch fires: the next batch starts, or the
\* results are returned
BatchPauseEnds ==
  /\ batch.pc = "pausing"
  /\ now' = now + BatchPauseMs
  /\ batch' = IF batch.b < Len(BatchesOf(batch))
              THEN AfterSettle(StartBatch(batch, batch.b + 1))
              ELSE [batch EXCEPT !.pc = "done"]
  /\ BatchFrame

NextBatch ==
  \/ \E locations \in SeqsUpTo(LocationTags, MaxLocations) :
       \E maxConcurrent \in ConcurrencyArgs :
         BatchFetchWeatherData(locations, maxConcurrent)
  \/ \E i \in 1..MaxLocations : \E data \in ResponseData : RequestResolves(i, data)
  \/ \E i \in 1..MaxLocations : RequestRejects(i)
  \/ BatchPauseEnds

SpecBatch == Init /\ [][NextBatch]_vars

\* C36: batchFetchWeatherData never has more than maxConcurrent requests in
\* flight, starts a batch only after every request of the previous batch has
\* settled, returns exactly one result per input location in input order,
\* and reports a failed location as {data: null, error} instead of failing
\* the whole call.
C36_BatchesBoundedOrderedComplete ==
  [][LET bt == batch'
     IN /\ Cardinality(bt.inFlight) <= bt.maxConcurrent
        /\ bt.maxInFlight <= bt.maxConcurrent
        /\ (bt.inFlight \ batch.inFlight # {}) => batch.inFlight = {}
        /\ bt.pc \in {"idle", "fetching", "pausing", "done"}
        /\ bt.pc = "done"
             => /\ Len(bt.results) = Len(bt.locations)
                /\ \A k \in 1..Len(bt.results) :
                     /\ bt.results[k].position = k
                     /\ bt.results[k].location = bt.locations[k]
                     /\ bt.results[k].data = "null" <=> bt.results[k].error # "null"
                     /\ bt.locations[k] = "bad" => bt.results[k].data = "null"]_vars

\* a call for three locations, two at a time, has returned: the request of
\* the first location failed, the second location never got a request, the
\* third one was fetched in the second batch, and there are three results
C36_Witness ==
  /\ batch.pc = "done"
  /\ batch.locations = <<"A", "bad", "B">>
  /\ batch.maxConcurrent = 2
  /\ Len(batch.results) = 3
  /\ batch.results[1].error = FetchError
  /\ batch.results[2].error = TypeError
  /\ batch.results[3].data = "d1"
  /\ now = 2 * BatchPauseMs

----------------------------------------------------------------------------
(* The built-in rule lists (src/src/store/dashboardStore.js, lines 28-65)  *)
(* under getColorForValue, checked under SpecBuiltin                       *)

MaxMagnitude == 2000

BuiltinIds == {InitialDataSources[i].id : i \in 1..Len(InitialDataSources)}

\* the thresholds of the built-in rules, in tenths
BuiltinThresholds ==
  UNION {UNION {{rule.value} \cup (IF rule.hasValue2 THEN {rule.value2} ELSE {})
                  : rule \in {ds.colorRules[k] : k \in 1..Len(ds.colorRules)}}
           : ds \in {InitialDataSources[i] : i \in 1..Len(InitialDataSources)}}

\* the values given to getColorForValue, in tenths: every threshold, its two
\* neighbours, and the two ends of the range explored
BuiltinValues ==
  UNION {{t - 1, t, t + 1} : t \in BuiltinThresholds}
    \cup {0 - MaxMagnitude, MaxMagnitude}

InitBuiltin ==
  /\ InitStore
  /\ InitTimeline
  /\ InitExtraBut
  /\ polygons = InitialPolygons
  /\ lastOp = NoOp
  /\ aggIn = NoAgg
  /\ aggOut = NoResult
  /\ colorOut = NoColorOut
  /\ colorIn \in [sourceId : BuiltinIds, value : {Num(v) : v \in BuiltinValues}]

SpecBuiltin == InitBuiltin /\ [][EvaluateColor]_vars

\* C38: with the built-in rule lists every number for temperature and
\* humidity, and every number >= 0 for precipitation, satisfies the full
\* condition of exactly one rule of its metric's list, and colorFor returns
\* that rule's color, never the default color.
C38_BuiltinListsPartition ==
  (/\ colorOut.state = "done"
   /\ colorIn.sourceId = "precipitation" => colorIn.value.v >= 0)
  => LET rules == RulesOf(dataSources, colorIn.sourceId)
         hits == {i \in 1..Len(rules) : FullConditionHolds(rules[i], colorIn.value.v)}
     IN /\ Cardinality(hits) = 1
        /\ \A i \in hits : colorOut.color = rules[i].color
        /\ colorOut.color # "#666666"

\* 15.0 degrees lies on the border of the second and the third temperature
\* rule and got the color of the third
C38_Witness ==
  /\ colorOut.state = "done"
  /\ colorIn = [sourceId |-> "temperature", value |-> Num(150)]
  /\ colorOut.color = "#faad14"

====
